---- MODULE Spec2Model ----
(***************************************************************************)
(* A model of the tiling core of photo-tiler: the triangle clipper         *)
(* (src/tiling/triangle_clipper.rs), the octree builder                    *)
(* (src/tiling/octree.rs) and the tileset builder and writer               *)
(* (src/tiling/tileset_writer.rs).                                         *)
(*                                                                         *)
(* Numbers.  f32/f64 values are modelled as exact rationals <<n, d>> with  *)
(* d > 0 in lowest terms.  The inputs are drawn from an integer grid, so   *)
(* that the arithmetic the code performs on them is exact in the model.    *)
(* The model does not round: a cast from f64 to f32 keeps the value, and   *)
(* the tolerances 1e-10 and 1e-15 of the clipper, far below the grid step, *)
(* are comparisons with 0.                                                 *)
(* Strings that the code builds with format! are modelled as sequences of  *)
(* their '_'-separated parts: "0_3_1" is <<"0", "3", "1">>.                *)
(***************************************************************************)
EXTENDS Integers, Sequences, FiniteSets, TLC

(***************************************************************************)
(* Rational arithmetic                                                     *)
(***************************************************************************)
RECURSIVE Gcd(_, _)
Gcd(a, b) == IF b = 0 THEN a ELSE Gcd(b, a % b)

Abs(x) == IF x < 0 THEN -x ELSE x

RatNorm(n, d) ==
    LET g == Gcd(Abs(n), Abs(d))
        s == IF d < 0 THEN -1 ELSE 1
    IN  <<(s * n) \div g, (s * d) \div g>>

R(n) == <<n, 1>>
RAdd(a, b) == RatNorm(a[1] * b[2] + b[1] * a[2], a[2] * b[2])
RSub(a, b) == RatNorm(a[1] * b[2] - b[1] * a[2], a[2] * b[2])
RMul(a, b) == RatNorm(a[1] * b[1], a[2] * b[2])
RDiv(a, b) == RatNorm(a[1] * b[2], a[2] * b[1])
RLe(a, b) == a[1] * b[2] <= b[1] * a[2]
RLt(a, b) == a[1] * b[2] < b[1] * a[2]
RGe(a, b) == RLe(b, a)
RAbs(a) == <<Abs(a[1]), a[2]>>
RZero == R(0)
RHalf == RatNorm(1, 2)

\* The exact square root of a rational that is a perfect square.
ISqrt(n) == CHOOSE r \in 0..n : r * r = n
RSqrt(a) == <<ISqrt(a[1]), ISqrt(a[2])>>

\* 0.5^k
RECURSIVE HalfPow(_)
HalfPow(k) == IF k = 0 THEN R(1) ELSE RMul(RHalf, HalfPow(k - 1))

(***************************************************************************)
(* types/mesh.rs, types/tile.rs                                            *)
(***************************************************************************)
\* Option<usize>: None is <<>>, Some(m) is <<m>>.
None == <<>>
Some(m) == <<m>>

\* IndexedMesh::default()
EmptyMesh ==
    [positions |-> <<>>, normals |-> <<>>, uvs |-> <<>>, colors |-> <<>>,
     indices |-> <<>>, material_index |-> None]

\* The flat buffers are modelled one entry per vertex (positions[i] is the
\* i-th vertex's <<x, y, z>>) and one entry per index.
vertex_count(mesh) == Len(mesh.positions)
triangle_count(mesh) == Len(mesh.indices) \div 3
has_normals(mesh) == mesh.normals /= <<>>
has_uvs(mesh) == mesh.uvs /= <<>>
has_colors(mesh) == mesh.colors /= <<>>
is_empty(mesh) == mesh.positions = <<>>

center(b) ==
    [i \in 1..3 |-> RMul(RAdd(b.min[i], b.max[i]), RHalf)]

diagonal(b) ==
    LET dx == RSub(b.max[1], b.min[1])
        dy == RSub(b.max[2], b.min[2])
        dz == RSub(b.max[3], b.min[3])
    IN  RSqrt(RAdd(RAdd(RMul(dx, dx), RMul(dy, dy)), RMul(dz, dz)))

(***************************************************************************)
(* tiling/octree.rs: octants                                               *)
(***************************************************************************)
\* octant & 1, octant & 2, octant & 4 (axis 1..3)
OctBit(octant, axis) ==
    CASE axis = 1 -> octant % 2 = 1
      [] axis = 2 -> (octant \div 2) % 2 = 1
      [] axis = 3 -> (octant \div 4) % 2 = 1

octant_index(c, point) ==
    (IF RGe(point[1], c[1]) THEN 1 ELSE 0)
    + (IF RGe(point[2], c[2]) THEN 2 ELSE 0)
    + (IF RGe(point[3], c[3]) THEN 4 ELSE 0)

child_bounds(parent, octant) ==
    LET c == center(parent)
    IN  [min |-> [i \in 1..3 |-> IF OctBit(octant, i) THEN c[i] ELSE parent.min[i]],
         max |-> [i \in 1..3 |-> IF OctBit(octant, i) THEN parent.max[i] ELSE c[i]]]

(***************************************************************************)
(* tiling/triangle_clipper.rs                                              *)
(***************************************************************************)
ZeroVec(n) == [i \in 1..n |-> RZero]

\* The source term of a working vertex: <<i>> for vertex i of the input mesh,
\* <<-axis, n, d>> \o src(a) \o src(b) for intersect_edge(a, b, plane) with
\* plane.value = n/d.  It records which computation produced the vertex;
\* the code does not read it.  crossing tells a vertex cut from an edge whose
\* endpoints lie strictly on opposite sides of the plane.
SrcOfInput(vertex_index) == <<vertex_index>>
SrcOfIntersection(a, b, plane) ==
    <<-plane.axis, plane.value[1], plane.value[2]>> \o a.src \o b.src

\* vertex_index is the code's 0-based index.
extract_clip_vertex(mesh, vertex_index) ==
    [pos    |-> mesh.positions[vertex_index + 1],
     normal |-> IF has_normals(mesh) THEN mesh.normals[vertex_index + 1] ELSE ZeroVec(3),
     uv     |-> IF has_uvs(mesh) THEN mesh.uvs[vertex_index + 1] ELSE ZeroVec(2),
     color  |-> IF has_colors(mesh) THEN mesh.colors[vertex_index + 1] ELSE ZeroVec(4),
     src    |-> SrcOfInput(vertex_index),
     crossing |-> FALSE]

\* t = if denom.abs() < 1e-15 { 0.5 } else { da / denom }.  On the grid a
\* denominator below 1e-15 is a denominator of 0.
EdgeParam(a, b, plane) ==
    LET da == RSub(a.pos[plane.axis], plane.value)
        db == RSub(b.pos[plane.axis], plane.value)
        denom == RSub(da, db)
    IN  IF denom = RZero THEN RHalf ELSE RDiv(da, denom)

Lerp(t, a_val, b_val) == RAdd(a_val, RMul(t, RSub(b_val, a_val)))

\* Renormalize if non-zero (len > 1e-12).
Renormalize(n) ==
    LET len == RSqrt(RAdd(RAdd(RMul(n[1], n[1]), RMul(n[2], n[2])), RMul(n[3], n[3])))
    IN  IF RLt(RZero, len) THEN [i \in 1..3 |-> RDiv(n[i], len)] ELSE n

intersect_edge(a, b, plane) ==
    LET t == EdgeParam(a, b, plane)
    IN  [pos    |-> [i \in 1..3 |-> Lerp(t, a.pos[i], b.pos[i])],
         normal |-> Renormalize([i \in 1..3 |-> Lerp(t, a.normal[i], b.normal[i])]),
         uv     |-> [i \in 1..2 |-> Lerp(t, a.uv[i], b.uv[i])],
         color  |-> [i \in 1..4 |-> Lerp(t, a.color[i], b.color[i])],
         src    |-> SrcOfIntersection(a, b, plane),
         crossing |-> RLt(RMul(RSub(a.pos[plane.axis], plane.value),
                               RSub(b.pos[plane.axis], plane.value)), RZero)]

\* The inclusion test.  The code allows 1e-10 of slack; every coordinate of
\* the model is a multiple of a grid step far above 1e-10, so
\* pos >= value - 1e-10 iff pos >= value.
is_inside(v, plane) ==
    IF plane.positive
    THEN RGe(v.pos[plane.axis], plane.value)
    ELSE RLe(v.pos[plane.axis], plane.value)

\* A clip loop that cuts every edge from its inside endpoint.
ClipEmit_FromInside(polygon, plane, i) ==
    LET n == Len(polygon)
        current == polygon[i]
        next == polygon[(i % n) + 1]
        cur_in == is_inside(current, plane)
        nxt_in == is_inside(next, plane)
    IN  CASE cur_in /\ nxt_in   -> <<next>>
          [] cur_in /\ ~nxt_in  -> <<intersect_edge(current, next, plane)>>
          [] ~cur_in /\ nxt_in  -> <<intersect_edge(next, current, plane), next>>
          [] ~cur_in /\ ~nxt_in -> <<>>

\* What the loop body of clip_polygon_by_plane pushes for index i (1-based).
ClipEmit(polygon, plane, i) ==
    LET n == Len(polygon)
        current == polygon[i]
        next == polygon[(i % n) + 1]
        cur_in == is_inside(current, plane)
        nxt_in == is_inside(next, plane)
    IN  CASE cur_in /\ nxt_in   -> <<next>>
          [] cur_in /\ ~nxt_in  -> <<intersect_edge(current, next, plane)>>
          [] ~cur_in /\ nxt_in  -> <<intersect_edge(current, next, plane), next>>
          [] ~cur_in /\ ~nxt_in -> <<>>

RECURSIVE ClipLoop(_, _, _)
ClipLoop(polygon, plane, i) ==
    IF i > Len(polygon) THEN <<>>
    ELSE ClipEmit(polygon, plane, i) \o ClipLoop(polygon, plane, i + 1)

\* Sutherland-Hodgman: clip a polygon by a single half-plane.
clip_polygon_by_plane(polygon, plane) ==
    IF polygon = <<>> THEN <<>> ELSE ClipLoop(polygon, plane, 1)

OctantPlanes(octant_bounds) ==
    <<[axis |-> 1, value |-> octant_bounds.min[1], positive |-> TRUE],
      [axis |-> 1, value |-> octant_bounds.max[1], positive |-> FALSE],
      [axis |-> 2, value |-> octant_bounds.min[2], positive |-> TRUE],
      [axis |-> 2, value |-> octant_bounds.max[2], positive |-> FALSE],
      [axis |-> 3, value |-> octant_bounds.min[3], positive |-> TRUE],
      [axis |-> 3, value |-> octant_bounds.max[3], positive |-> FALSE]>>

RECURSIVE ClipByPlanes(_, _, _)
ClipByPlanes(polygon, planes, k) ==
    IF k > Len(planes) THEN polygon
    ELSE LET clipped == clip_polygon_by_plane(polygon, planes[k])
         IN  IF clipped = <<>> THEN clipped
             ELSE ClipByPlanes(clipped, planes, k + 1)

\* Clip a triangle against the 6 AABB planes of one octant.
clip_triangle_to_octant(tri, octant_bounds) ==
    ClipByPlanes(tri, OctantPlanes(octant_bounds), 1)

\* Fan-triangulate a convex polygon from vertex 0.
fan_triangulate(polygon) ==
    IF Len(polygon) < 3 THEN <<>>
    ELSE [i \in 1..(Len(polygon) - 2) |-> <<polygon[1], polygon[i + 1], polygon[i + 2]>>]

\* PositionKey::from_pos: (pos * 1e6).round() per axis (coordinates >= 0).
QuantScale == 1000000
RoundScaled(r) ==
    LET q == (r[1] * QuantScale) \div r[2]
        rem == (r[1] * QuantScale) % r[2]
    IN  q + (IF 2 * rem >= r[2] THEN 1 ELSE 0)
PositionKey(pos) == [i \in 1..3 |-> RoundScaled(pos[i])]

\* OctantMeshBuilder::new.  dedup maps a key to the index of the vertex that
\* inserted it: key dedup[i + 1] belongs to vertex i.
NewBuilder(hn, hu, hc) ==
    [positions |-> <<>>, normals |-> <<>>, uvs |-> <<>>, colors |-> <<>>,
     indices |-> <<>>, dedup |-> <<>>,
     has_normals |-> hn, has_uvs |-> hu, has_colors |-> hc]

DedupHas(b, key) == \E i \in 1..Len(b.dedup) : b.dedup[i] = key
DedupGet(b, key) == (CHOOSE i \in 1..Len(b.dedup) : b.dedup[i] = key) - 1

\* The index add_vertex returns.
AddVertexIdx(b, v) ==
    IF DedupHas(b, PositionKey(v.pos)) THEN DedupGet(b, PositionKey(v.pos))
    ELSE Len(b.positions)

\* An add_vertex that pushes the UV whether or not the builder keeps UVs.
add_vertex_AlwaysUv(b, v) ==
    IF DedupHas(b, PositionKey(v.pos)) THEN b
    ELSE [b EXCEPT
            !.positions = Append(@, v.pos),
            !.normals = IF b.has_normals THEN Append(@, v.normal) ELSE @,
            !.uvs = Append(@, v.uv),
            !.colors = IF b.has_colors THEN Append(@, v.color) ELSE @,
            !.dedup = Append(@, PositionKey(v.pos))]

\* The builder after add_vertex.
add_vertex(b, v) ==
    IF DedupHas(b, PositionKey(v.pos)) THEN b
    ELSE [b EXCEPT
            !.positions = Append(@, v.pos),
            !.normals = IF b.has_normals THEN Append(@, v.normal) ELSE @,
            !.uvs = IF b.has_uvs THEN Append(@, v.uv) ELSE @,
            !.colors = IF b.has_colors THEN Append(@, v.color) ELSE @,
            !.dedup = Append(@, PositionKey(v.pos))]

\* An add_triangle without the filter: the three indices are always pushed.
add_triangle_NoFilter(b, va, vb, vc) ==
    LET b1 == add_vertex(b, va)
        ia == AddVertexIdx(b, va)
        b2 == add_vertex(b1, vb)
        ib == AddVertexIdx(b1, vb)
        b3 == add_vertex(b2, vc)
        ic == AddVertexIdx(b2, vc)
    IN  [b3 EXCEPT !.indices = @ \o <<ia, ib, ic>>]

\* Add a triangle from 3 ClipVertices. Skips degenerate (collapsed indices).
add_triangle(b, va, vb, vc) ==
    LET b1 == add_vertex(b, va)
        ia == AddVertexIdx(b, va)
        b2 == add_vertex(b1, vb)
        ib == AddVertexIdx(b1, vb)
        b3 == add_vertex(b2, vc)
        ic == AddVertexIdx(b2, vc)
    IN  IF ia /= ib /\ ib /= ic /\ ia /= ic
        THEN [b3 EXCEPT !.indices = @ \o <<ia, ib, ic>>]
        ELSE b3

build(b, material_index) ==
    [positions |-> b.positions, normals |-> b.normals, uvs |-> b.uvs,
     colors |-> b.colors, indices |-> b.indices, material_index |-> material_index]

RECURSIVE AddTriangles(_, _, _)
AddTriangles(b, tris, k) ==
    IF k > Len(tris) THEN b
    ELSE AddTriangles(add_triangle(b, tris[k][1], tris[k][2], tris[k][3]), tris, k + 1)

\* The three working vertices of triangle k (1-based) of the mesh.
TriVerts(mesh, k) ==
    <<extract_clip_vertex(mesh, mesh.indices[3 * k - 2]),
      extract_clip_vertex(mesh, mesh.indices[3 * k - 1]),
      extract_clip_vertex(mesh, mesh.indices[3 * k])>>

TriOctants(mesh, bounds, k) ==
    LET tv == TriVerts(mesh, k)
    IN  [j \in 1..3 |-> octant_index(center(bounds), tv[j].pos)]

IsFastPath(mesh, bounds, k) ==
    LET o == TriOctants(mesh, bounds, k)
    IN  o[1] = o[2] /\ o[2] = o[3]

\* The polygon triangle k leaves in octant oct on the slow path.
ClippedPolygon(mesh, bounds, k, oct) ==
    clip_triangle_to_octant(TriVerts(mesh, k), child_bounds(bounds, oct))

\* One iteration of the loop over mesh.indices.chunks_exact(3): the eight
\* builders (builders[oct + 1]) after triangle k.
SplitStep(builders, mesh, bounds, k) ==
    LET tv == TriVerts(mesh, k)
        o == TriOctants(mesh, bounds, k)
    IN  IF o[1] = o[2] /\ o[2] = o[3]
        THEN [builders EXCEPT ![o[1] + 1] = add_triangle(@, tv[1], tv[2], tv[3])]
        ELSE [oct1 \in 1..8 |->
                AddTriangles(builders[oct1],
                             fan_triangulate(ClippedPolygon(mesh, bounds, k, oct1 - 1)), 1)]

RECURSIVE SplitLoop(_, _, _, _)
SplitLoop(builders, mesh, bounds, k) ==
    IF k > triangle_count(mesh) THEN builders
    ELSE SplitLoop(SplitStep(builders, mesh, bounds, k), mesh, bounds, k + 1)

InitialBuilders(mesh) ==
    [oct1 \in 1..8 |-> NewBuilder(has_normals(mesh), has_uvs(mesh), has_colors(mesh))]

\* The eight sub-meshes; element oct + 1 is octant oct.
split_mesh_clipping(mesh, bounds) ==
    LET builders == SplitLoop(InitialBuilders(mesh), mesh, bounds, 1)
    IN  [oct1 \in 1..8 |-> build(builders[oct1], mesh.material_index)]

split_mesh(mesh, bounds) == split_mesh_clipping(mesh, bounds)


(***************************************************************************)
(* tiling/octree.rs: the octree                                            *)
(***************************************************************************)
NoChildren == [i \in 1..8 |-> None]

\* OctreeNode::is_leaf
is_leaf(node) == \A i \in 1..8 : node.children[i] = None

\* The sequential meaning of build_octree_recursive: children[i + 1] is the
\* sub-tree of octant i, None for an empty sub-mesh.
RECURSIVE build_octree_recursive(_, _, _, _, _)
build_octree_recursive(mesh, bounds, depth, max_depth, max_triangles) ==
    IF triangle_count(mesh) <= max_triangles \/ depth >= max_depth
    THEN [bounds |-> bounds, mesh |-> mesh, children |-> NoChildren]
    ELSE LET sub_meshes == split_mesh(mesh, bounds)
         IN  [bounds |-> bounds,
              mesh |-> EmptyMesh,
              children |->
                [i \in 1..8 |->
                    IF is_empty(sub_meshes[i]) THEN None
                    ELSE Some(build_octree_recursive(sub_meshes[i],
                                                     child_bounds(bounds, i - 1),
                                                     depth + 1, max_depth, max_triangles))]]

build_octree(mesh, bounds, max_depth, max_triangles) ==
    build_octree_recursive(mesh, bounds, 0, max_depth, max_triangles)

(***************************************************************************)
(* tiling/tileset_writer.rs: building the tile tree                        *)
(***************************************************************************)
RootAddress == <<"root">>

\* "tiles/root.glb" is [dirs |-> <<>>, file |-> "root.glb"]; any other address
\* s1_..._sk is tiles/s1/s1_s2/.../s1_..._sk/tile.glb: one directory per
\* prefix of the address.
address_to_uri(address) ==
    IF address = RootAddress
    THEN [dirs |-> <<>>, file |-> "root.glb"]
    ELSE [dirs |-> [i \in 1..Len(address) |-> SubSeq(address, 1, i)],
          file |-> "tile.glb"]

\* The GLB bytes of a tile are modelled by what they encode of the mesh.
write_tile_glb(mesh) ==
    [vertices |-> vertex_count(mesh), triangles |-> triangle_count(mesh)]

TileContent(mesh, address) ==
    Some([glb_data |-> write_tile_glb(mesh), uri |-> address_to_uri(address)])

\* Merge two IndexedMeshes by concatenating their buffers and offsetting indices.
OptionOr(a, b) == IF a /= None THEN a ELSE b

\* merge_meshes with the second mesh's indices appended as they are.
merge_meshes_NoOffset(a, b) ==
    IF is_empty(a) THEN b
    ELSE IF is_empty(b) THEN a
    ELSE [positions |-> a.positions \o b.positions,
          normals |-> IF has_normals(a) /\ has_normals(b) THEN a.normals \o b.normals ELSE <<>>,
          uvs |-> IF has_uvs(a) /\ has_uvs(b) THEN a.uvs \o b.uvs ELSE <<>>,
          colors |-> IF has_colors(a) /\ has_colors(b) THEN a.colors \o b.colors ELSE <<>>,
          indices |-> a.indices \o b.indices,
          material_index |-> OptionOr(a.material_index, b.material_index)]

\* A merge whose material handle is that of the later mesh when it has one.
merge_meshes_LaterWins(a, b) ==
    IF is_empty(a) THEN b
    ELSE IF is_empty(b) THEN a
    ELSE [positions |-> a.positions \o b.positions,
          normals |-> IF has_normals(a) /\ has_normals(b)
                      THEN a.normals \o b.normals ELSE <<>>,
          uvs |-> IF has_uvs(a) /\ has_uvs(b) THEN a.uvs \o b.uvs ELSE <<>>,
          colors |-> IF has_colors(a) /\ has_colors(b)
                     THEN a.colors \o b.colors ELSE <<>>,
          indices |-> a.indices \o
                      [k \in 1..Len(b.indices) |-> b.indices[k] + vertex_count(a)],
          material_index |-> OptionOr(b.material_index, a.material_index)]

merge_meshes(a, b) ==
    IF is_empty(a) THEN b
    ELSE IF is_empty(b) THEN a
    ELSE [positions |-> a.positions \o b.positions,
          normals |-> IF has_normals(a) /\ has_normals(b)
                      THEN a.normals \o b.normals ELSE <<>>,
          uvs |-> IF has_uvs(a) /\ has_uvs(b) THEN a.uvs \o b.uvs ELSE <<>>,
          colors |-> IF has_colors(a) /\ has_colors(b)
                     THEN a.colors \o b.colors ELSE <<>>,
          indices |-> a.indices \o
                      [k \in 1..Len(b.indices) |-> b.indices[k] + vertex_count(a)],
          material_index |-> OptionOr(a.material_index, b.material_index)]

\* octree_to_tile_node with a content record for every node, empty mesh or
\* not.
RECURSIVE octree_to_tile_node_AlwaysContent(_, _, _, _)
octree_to_tile_node_AlwaysContent(node, address, level, bounds) ==
    LET kids == SelectSeq([i \in 1..8 |-> i], LAMBDA i : node.children[i] /= None)
    IN  [address |-> address,
         level |-> level,
         bounds |-> bounds,
         geometric_error |-> IF is_leaf(node) THEN RZero
                             ELSE RMul(diagonal(bounds), HalfPow(level)),
         content |-> TileContent(node.mesh, address),
         children |->
            [k \in 1..Len(kids) |->
                LET c == node.children[kids[k]][1]
                IN  octree_to_tile_node_AlwaysContent(
                        c, Append(address, ToString(kids[k] - 1)), level + 1, c.bounds)]]

\* octree_to_tile_node with the internal node's error at every node.
RECURSIVE octree_to_tile_node_NoLeafCase(_, _, _, _)
octree_to_tile_node_NoLeafCase(node, address, level, bounds) ==
    LET kids == SelectSeq([i \in 1..8 |-> i], LAMBDA i : node.children[i] /= None)
    IN  [address |-> address,
         level |-> level,
         bounds |-> bounds,
         geometric_error |-> RMul(diagonal(bounds), HalfPow(level)),
         content |-> IF ~is_empty(node.mesh) THEN TileContent(node.mesh, address)
                     ELSE None,
         children |->
            [k \in 1..Len(kids) |->
                LET c == node.children[kids[k]][1]
                IN  octree_to_tile_node_NoLeafCase(
                        c, Append(address, ToString(kids[k] - 1)), level + 1, c.bounds)]]

\* Convert an OctreeNode into a TileNode (used for single-level tilesets).
RECURSIVE octree_to_tile_node(_, _, _, _)
octree_to_tile_node(node, address, level, bounds) ==
    LET geometric_error ==
            IF is_leaf(node) THEN RZero
            ELSE RMul(diagonal(bounds), HalfPow(level))
        kids == SelectSeq([i \in 1..8 |-> i], LAMBDA i : node.children[i] /= None)
    IN  [address |-> address,
         level |-> level,
         bounds |-> bounds,
         geometric_error |-> geometric_error,
         content |-> IF ~is_empty(node.mesh) THEN TileContent(node.mesh, address)
                     ELSE None,
         children |->
            [k \in 1..Len(kids) |->
                LET c == node.children[kids[k]][1]
                IN  octree_to_tile_node(c, Append(address, ToString(kids[k] - 1)),
                                        level + 1, c.bounds)]]

TenthOf(x) == RMul(x, RatNorm(1, 10))

\* Recursively convert an OctreeNode into a TileNode.  The result is
\* <<tile, counter>>: the tile and the value of *counter afterwards.
RECURSIVE octree_to_tile_node_recursive(_, _)
RECURSIVE ConvertChildren(_, _, _, _)
\* The loop over node.children from child i on, with the tiles pushed so far.
ConvertChildren(node, i, counter, tiles) ==
    IF i > 8 THEN <<tiles, counter>>
    ELSE IF node.children[i] = None THEN ConvertChildren(node, i + 1, counter, tiles)
    ELSE LET r == octree_to_tile_node_recursive(node.children[i][1], counter)
         IN  ConvertChildren(node, i + 1, r[2], Append(tiles, r[1]))

octree_to_tile_node_recursive(node, counter) ==
    LET address == <<ToString(counter)>>
    IN  IF is_leaf(node)
        THEN <<[address |-> address,
                level |-> 0,
                bounds |-> node.bounds,
                geometric_error |-> RZero,
                content |-> IF ~is_empty(node.mesh) THEN TileContent(node.mesh, address)
                            ELSE None,
                children |-> <<>>],
               counter + 1>>
        ELSE LET r == ConvertChildren(node, 1, counter + 1, <<>>)
             IN  <<[address |-> address,
                    level |-> 0,
                    bounds |-> node.bounds,
                    geometric_error |-> TenthOf(diagonal(node.bounds)),
                    content |-> None,
                    children |-> r[1]],
                   r[2]>>

\* Convert an octree into tile nodes for the leaf level of the LOD hierarchy.
octree_children_to_tiles(node, child_counter) ==
    IF is_leaf(node)
    THEN IF is_empty(node.mesh) THEN <<>>
         ELSE <<[address |-> <<ToString(child_counter)>>,
                 level |-> 0,
                 bounds |-> node.bounds,
                 geometric_error |-> RZero,
                 content |-> TileContent(node.mesh, <<ToString(child_counter)>>),
                 children |-> <<>>]>>
    ELSE ConvertChildren(node, 1, child_counter, <<>>)[1]

\* level_meshes[k] is <<lod, mesh, error>>, finest first.
RECURSIVE build_lod_children(_, _, _, _, _)
build_lod_children(level_meshes, current_idx, bounds, config, parent_addr) ==
    LET lod_level == level_meshes[current_idx + 1][1]
        mesh == level_meshes[current_idx + 1][2]
        geometric_error == level_meshes[current_idx + 1][3]
        address == IF parent_addr = <<>> THEN <<ToString(lod_level)>>
                   ELSE Append(parent_addr, ToString(lod_level))
    IN  IF current_idx = 0
        THEN octree_children_to_tiles(
                 build_octree(mesh, bounds, config.max_depth, config.max_triangles_per_tile), 0)
        ELSE <<[address |-> address,
                level |-> lod_level,
                bounds |-> bounds,
                geometric_error |-> geometric_error,
                content |-> TileContent(mesh, address),
                children |-> build_lod_children(level_meshes, current_idx - 1, bounds,
                                                config, address)]>>

\* A hierarchy whose root tile carries no content.
build_lod_hierarchy_BareRoot(level_meshes, bounds, config) ==
    LET num_levels == Len(level_meshes)
        coarsest_idx == num_levels - 1
    IN  [address |-> RootAddress,
         level |-> 0,
         bounds |-> bounds,
         geometric_error |-> level_meshes[coarsest_idx + 1][3],
         content |-> None,
         children |-> IF num_levels >= 2
                      THEN build_lod_children(level_meshes, coarsest_idx - 1, bounds,
                                              config, <<>>)
                      ELSE <<>>]

build_lod_hierarchy(level_meshes, bounds, config) ==
    LET num_levels == Len(level_meshes)
        coarsest_idx == num_levels - 1
    IN  [address |-> RootAddress,
         level |-> 0,
         bounds |-> bounds,
         geometric_error |-> level_meshes[coarsest_idx + 1][3],
         content |-> TileContent(level_meshes[coarsest_idx + 1][2], RootAddress),
         children |-> IF num_levels >= 2
                      THEN build_lod_children(level_meshes, coarsest_idx - 1, bounds,
                                              config, <<>>)
                      ELSE <<>>]

\* A chain is a sequence of levels [level, mesh, geometric_error].
SetMax(S) == CHOOSE x \in S : \A y \in S : y <= x

MaxLod(lod_chains) ==
    LET all == UNION {{lod_chains[c][l].level : l \in 1..Len(lod_chains[c])} :
                         c \in 1..Len(lod_chains)}
    IN  IF all = {} THEN 0 ELSE SetMax(all)

\* chain.levels.iter().find(|l| l.level == lod)
FindLevel(chain, lod) ==
    LET hits == {l \in 1..Len(chain) : chain[l].level = lod}
    IN  IF hits = {} THEN None
        ELSE Some(chain[CHOOSE l \in hits : \A m \in hits : l <= m])

\* The inner loop of build_tileset over the chains from chain c on:
\* <<merged, max_error>>.
RECURSIVE MergeLevel(_, _, _, _, _)
MergeLevel(lod_chains, lod, c, merged, max_error) ==
    IF c > Len(lod_chains) THEN <<merged, max_error>>
    ELSE LET found == FindLevel(lod_chains[c], lod)
         IN  IF found = None
             THEN MergeLevel(lod_chains, lod, c + 1, merged, max_error)
             ELSE MergeLevel(lod_chains, lod, c + 1,
                             merge_meshes(merged, found[1].mesh),
                             IF RLt(max_error, found[1].geometric_error)
                             THEN found[1].geometric_error ELSE max_error)

\* The outer loop of build_tileset from level lod on.
RECURSIVE LevelMeshes(_, _, _)
LevelMeshes(lod_chains, lod, max_lod) ==
    IF lod > max_lod THEN <<>>
    ELSE LET m == MergeLevel(lod_chains, lod, 1, EmptyMesh, RZero)
         IN  (IF ~is_empty(m[1]) THEN <<<<lod, m[1], m[2]>>>> ELSE <<>>)
             \o LevelMeshes(lod_chains, lod + 1, max_lod)

\* The root TileNode of the TilesetOutput.
build_tileset(lod_chains, bounds, config) ==
    LET level_meshes == LevelMeshes(lod_chains, 0, MaxLod(lod_chains))
    IN  IF Len(level_meshes) <= 1
        THEN LET mesh == IF level_meshes = <<>> THEN EmptyMesh ELSE level_meshes[1][2]
             IN  octree_to_tile_node(
                     build_octree(mesh, bounds, config.max_depth,
                                  config.max_triangles_per_tile),
                     RootAddress, 0, bounds)
        ELSE build_lod_hierarchy(level_meshes, bounds, config)


(***************************************************************************)
(* tiling/tileset_writer.rs: writing the tileset                          *)
(***************************************************************************)
half_extents(b) ==
    [i \in 1..3 |-> RMul(RSub(b.max[i], b.min[i]), RHalf)]

\* [cx, cy, cz, hx, 0, 0, 0, hy, 0, 0, 0, hz]
bounding_volume_box(b) ==
    LET c == center(b)
        he == half_extents(b)
    IN  <<c[1], c[2], c[3],
          he[1], RZero, RZero,
          RZero, he[2], RZero,
          RZero, RZero, he[3]>>

\* Convert a TileNode to its tileset.json representation.  An absent JSON
\* field is None.
RECURSIVE tile_node_to_json(_, _)
\* An f64 that is not finite has denominator 0: NaN is 0/0, infinity 1/0.
NaN == <<0, 0>>
Infinity == <<1, 0>>

\* json!(x) of an f64: serde_json's Value::from(f64) is the number when it is
\* finite and Null (None here) when it is not.
json_f64(x) == IF x[2] = 0 THEN None ELSE x

tile_node_to_json(node, transform) ==
    [boundingVolume |-> [box |-> bounding_volume_box(node.bounds)],
     geometricError |-> json_f64(node.geometric_error),
     refine |-> "REPLACE",
     transform |-> IF transform /= None
                   THEN Some([i \in 1..16 |-> json_f64(transform[1][i])])
                   ELSE None,
     content |-> IF node.content /= None THEN Some([uri |-> node.content[1].uri])
                 ELSE None,
     children |-> IF node.children /= <<>>
                  THEN Some([k \in 1..Len(node.children) |->
                                tile_node_to_json(node.children[k], None)])
                  ELSE None]

build_tileset_json(root_node, transform) ==
    [asset |-> [version |-> "1.1", generator |-> "photo-tiler"],
     geometricError |-> json_f64(root_node.geometric_error),
     root |-> tile_node_to_json(root_node, Some(transform))]

\* Collect all (path, data) pairs from the tile tree, in pre-order.
RECURSIVE collect_glb_pairs(_)
RECURSIVE CollectChildren(_, _)
CollectChildren(children, k) ==
    IF k > Len(children) THEN <<>>
    ELSE collect_glb_pairs(children[k]) \o CollectChildren(children, k + 1)

collect_glb_pairs(node) ==
    (IF node.content /= None
     THEN <<[path |-> node.content[1].uri, data |-> node.content[1].glb_data]>>
     ELSE <<>>)
    \o CollectChildren(node.children, 1)

\* What fs::create_dir_all(path.parent()) creates for one pair: the
\* directory of the file and every ancestor below tiles/.
DirsOf(path) == {SubSeq(path.dirs, 1, i) : i \in 0..Len(path.dirs)}

\* fs::write(path, data): the file system after the write.
FsWrite(fs, path, data) ==
    {f \in fs : f.path /= path} \cup {[path |-> path, data |-> data]}


(***************************************************************************)
(* Inputs                                                                  *)
(***************************************************************************)
P(x, y, z) == <<R(x), R(y), R(z)>>

\* The model's bounding box: 8 x 16 x 16, so that the diagonal of the box
\* and of every octant below it is rational (24, 12, 6, ...).
RootBounds == [min |-> P(0, 0, 0), max |-> P(8, 16, 16)]

\* Triangles on the integer grid inside RootBounds.
TriCatalog ==
    << <<P(3, 1, 1), P(5, 1, 1), P(3, 3, 1)>>,      \* straddles x = 4
       <<P(0, 0, 0), P(1, 0, 0), P(0, 1, 0)>>,      \* octant 0, low corner
       <<P(3, 1, 1), P(3, 2, 1), P(3, 1, 2)>>,      \* octant 0, its octant 1
       <<P(5, 9, 1), P(6, 9, 1), P(5, 10, 1)>>,     \* octant 3
       <<P(1, 1, 9), P(2, 1, 9), P(1, 2, 9)>>,      \* octant 4
       <<P(5, 1, 1), P(6, 1, 1), P(5, 2, 1)>> >>    \* octant 1

\* Bounds of the model.
MeshTris == 3
MaxDepthBound == 2
MaxTrisBound == 1
MaxLevels == 3

\* The ascending sequence of the elements of a set of numbers.
RECURSIVE SortedSeq(_)
SortedSeq(S) ==
    IF S = {} THEN <<>>
    ELSE LET m == CHOOSE x \in S : \A y \in S : x <= y
         IN  <<m>> \o SortedSeq(S \ {m})

\* The mesh of the catalogue triangles in S, three vertices per triangle.
MeshOfSeq(ts) ==
    [EmptyMesh EXCEPT
        !.positions = [v \in 1..(3 * Len(ts)) |->
                          TriCatalog[ts[((v - 1) \div 3) + 1]][((v - 1) % 3) + 1]],
        !.indices = [k \in 1..(3 * Len(ts)) |-> k - 1]]
MeshOf(S) == MeshOfSeq(SortedSeq(S))

InputMeshes == {MeshOf(S) : S \in SUBSET (1..MeshTris)}

\* The errors of the coarser levels grow by one step per level.
ErrSteps == {RatNorm(1, 100), R(30)}

\* A chain of n levels 0..n-1: the input mesh at level 0 (error 0), a one
\* triangle mesh at every coarser level.
ChainOf(mesh, n, step) ==
    [k \in 1..n |->
        [level |-> k - 1,
         mesh |-> IF k = 1 THEN mesh ELSE MeshOf({2}),
         geometric_error |-> RMul(R(k - 1), step)]]

\* One chain of at most max_levels levels per mesh.
ChainsOf(meshes, max_levels) ==
    {<<ChainOf(m, 1, RZero)>> : m \in meshes}
    \cup {<<ChainOf(m, n, st)>> : m \in meshes, n \in 2..max_levels, st \in ErrSteps}

InputChains == ChainsOf(InputMeshes, MaxLevels)

ConfigsOf(depth) ==
    [max_depth : 0..depth, max_triangles_per_tile : 0..MaxTrisBound]

InputConfigs == ConfigsOf(MaxDepthBound)

IdentityTransform ==
    [i \in 1..16 |-> IF i \in {1, 6, 11, 16} THEN R(1) ELSE RZero]

(***************************************************************************)
(* The tileset pipeline: build_tileset, then write_tileset                 *)
(***************************************************************************)
VARIABLES
    pc,            \* where the pipeline is
    lod_chains,    \* build_tileset's input chains
    config,        \* TilingConfig
    root,          \* TilesetOutput.root, None before build_tileset
    pairs,         \* write_tile_glbs_parallel's (path, data) pairs
    dirs,          \* directories on disk below tiles/
    files,         \* .glb files on disk: records [path, data]
    done,          \* indices of pairs whose parallel write has run
    write_failed,  \* some parallel write returned Err
    manifest,      \* tileset.json on disk, None when absent
    result,        \* write_tileset's return value, None while running
    oct_input,     \* build_octree's arguments
    oct_tasks,     \* the calls of build_octree_recursive, by octant path
    oct_order,     \* per splitting call, its items' octants in order of completion
    clip_mesh,     \* split_mesh_clipping's input mesh
    clip_k,        \* the number of triangles the loop has processed
    clip_builders, \* the eight OctantMeshBuilders
    clip_last,     \* what the last iteration emitted, per octant
    clip_out,      \* the eight built sub-meshes, None before build
    merge_inputs,  \* the meshes of one LOD level, one per chain
    merge_k,       \* the number of meshes merged so far
    merged,        \* build_tileset's accumulator `merged`
    at_in,         \* repack_atlas's mesh, decoded texture size and max_size
    at_pc,         \* where repack_atlas is
    at_islands,    \* the islands detect_islands returned
    at_sized,      \* their pixel sizes and paddings
    at_w,          \* guillotine_pack's atlas_w
    at_h,          \* guillotine_pack's atlas_h
    at_placements, \* what guillotine_pack returned
    at_out,        \* repack_atlas's result: None, or Some(the remapped mesh)
    lod_in,        \* generate_lod_chain's mesh (its triangle count), bounds, max_levels
    lod_pc,        \* where generate_lod_chain is
    lod_levels,    \* levels
    lod_n,         \* the loop variable n
    lod_prev,      \* prev_triangle_count
    lod_cum,       \* cumulative_error
    cm_source,     \* compact_mesh's source mesh
    cm_indices,    \* compact_mesh's index list
    cm_pc,         \* where compact_mesh is
    cm_k,          \* the number of indices the remap loop has scanned
    cm_remap,      \* remap and next_vertex
    cm_out,        \* the mesh compact_mesh returned, None before
    tx_in,         \* compress_texture's image and config, and what the encoders do
    tx_out,        \* the TextureData compress_texture returned, None before
    glb_in,        \* write_glb_impl's arguments, and what the encoders and the serialiser return
    glb_out,       \* the GLB write_glb_impl returned, None before
    tg_in,         \* write_tile_glb's arguments, and what the codecs return
    tg_out,        \* what write_tile_glb handed to write_glb and the GLB it returned, None before
    pg_in,         \* clip_polygon_by_plane's polygon and plane
    pg_pc,         \* where clip_polygon_by_plane is
    pg_i,          \* the loop variable i
    pg_output,     \* output
    pk_sized,      \* guillotine_pack's argument sized
    pk_pc,         \* where guillotine_pack is
    pk_w,          \* atlas_w
    pk_h,          \* atlas_h
    pk_forced,     \* the running try_pack is the forced one
    pk_k,          \* the number of islands the running try_pack has placed
    pk_free,       \* try_pack's free_rects
    pk_placements, \* try_pack's placements, at the end guillotine_pack's result
    uri_addr,      \* address_to_uri's argument, a string of characters
    uri_pc,        \* where address_to_uri is
    uri_out,       \* the String address_to_uri returned, None before
    transform      \* write_tileset's argument transform: [f64; 16]

tileVars ==
    <<pc, lod_chains, config, root, pairs, dirs, files, done, write_failed,
      manifest, result>>
octVars == <<oct_input, oct_tasks, oct_order>>
clipVars == <<clip_mesh, clip_k, clip_builders, clip_last, clip_out>>
mergeVars == <<merge_inputs, merge_k, merged>>
atlasVars == <<at_in, at_pc, at_islands, at_sized, at_w, at_h, at_placements, at_out>>
lodVars == <<lod_in, lod_pc, lod_levels, lod_n, lod_prev, lod_cum>>
uriVars == <<uri_addr, uri_pc, uri_out>>
callVars == <<transform>>
compactVars == <<cm_source, cm_indices, cm_pc, cm_k, cm_remap, cm_out>>
texVars == <<tx_in, tx_out>>
glbVars == <<glb_in, glb_out>>
tileGlbVars == <<tg_in, tg_out>>
polyVars == <<pg_in, pg_pc, pg_i, pg_output>>
packVars == <<pk_sized, pk_pc, pk_w, pk_h, pk_forced, pk_k, pk_free, pk_placements>>
auxVars == <<texVars, glbVars, tileGlbVars, polyVars, packVars>>
coreVars ==
    <<tileVars, octVars, clipVars, mergeVars, atlasVars, lodVars, uriVars, callVars,
      compactVars>>

vars == <<tileVars, octVars, clipVars, mergeVars, atlasVars, lodVars, uriVars, callVars, compactVars, auxVars>>

\* The variables of a part of the program that a specification does not run.
TileIdle ==
    /\ pc = "idle"
    /\ lod_chains = <<>>
    /\ config = <<>>
    /\ root = None
    /\ pairs = <<>>
    /\ dirs = {}
    /\ files = {}
    /\ done = {}
    /\ write_failed = FALSE
    /\ manifest = None
    /\ result = None
OctIdle == oct_input = <<>> /\ oct_tasks = <<>> /\ oct_order = <<>>
ClipIdle ==
    /\ clip_mesh = <<>>
    /\ clip_k = 0
    /\ clip_builders = <<>>
    /\ clip_last = <<>>
    /\ clip_out = None
MergeIdle == merge_inputs = <<>> /\ merge_k = 0 /\ merged = <<>>
AtlasIdle ==
    /\ at_in = <<>> /\ at_pc = "idle" /\ at_islands = <<>> /\ at_sized = <<>>
    /\ at_w = 0 /\ at_h = 0 /\ at_placements = <<>> /\ at_out = None
LodIdle ==
    /\ lod_in = <<>> /\ lod_pc = "idle" /\ lod_levels = <<>> /\ lod_n = 0
    /\ lod_prev = 0 /\ lod_cum = RZero
UriIdle == uri_addr = <<>> /\ uri_pc = "idle" /\ uri_out = None
\* Without a georeference the pipeline passes identity_transform().
CallIdle == transform = IdentityTransform
CompactIdle ==
    /\ cm_source = <<>> /\ cm_indices = <<>> /\ cm_pc = "idle" /\ cm_k = 0
    /\ cm_remap = <<>> /\ cm_out = None
CoreIdle ==
    /\ TileIdle /\ OctIdle /\ ClipIdle /\ MergeIdle /\ AtlasIdle /\ LodIdle
    /\ UriIdle /\ CallIdle /\ CompactIdle
TexIdle == tx_in = <<>> /\ tx_out = None
GlbIdle == glb_in = <<>> /\ glb_out = None
TileGlbIdle == tg_in = <<>> /\ tg_out = None
PolyIdle == pg_in = <<>> /\ pg_pc = "idle" /\ pg_i = 0 /\ pg_output = <<>>
PackIdle ==
    /\ pk_sized = <<>> /\ pk_pc = "idle" /\ pk_w = 0 /\ pk_h = 0 /\ pk_forced = FALSE
    /\ pk_k = 0 /\ pk_free = <<>> /\ pk_placements = <<>>
AuxIdle == TexIdle /\ GlbIdle /\ TileGlbIdle /\ PolyIdle /\ PackIdle

Ok(n) == [ok |-> TRUE, kind |-> "Ok", value |-> n]
Err(kind) == [ok |-> FALSE, kind |-> kind, value |-> 0]

TileInit ==
    /\ pc = "start"
    /\ lod_chains \in InputChains
    /\ config \in InputConfigs
    /\ root = None
    /\ pairs = <<>>
    /\ dirs = {}
    /\ files = {}
    /\ done = {}
    /\ write_failed = FALSE
    /\ manifest = None
    /\ result = None

Init == TileInit /\ OctIdle /\ ClipIdle /\ MergeIdle /\ AtlasIdle /\ LodIdle /\ UriIdle /\ CallIdle /\ CompactIdle /\ AuxIdle

\* build_tileset.
BuildTileset ==
    /\ pc = "start"
    /\ root' = Some(build_tileset(lod_chains, RootBounds, config))
    /\ pc' = "built"
    /\ UNCHANGED <<lod_chains, config, pairs, dirs, files, done, write_failed,
                   manifest, result>>
    /\ UNCHANGED <<octVars, clipVars, mergeVars, atlasVars, lodVars, uriVars, callVars, compactVars, auxVars>>

\* write_tile_glbs_parallel, first half: collect the pairs and create every
\* directory, sequentially.
CreateDirsOk ==
    /\ pc = "built"
    /\ pairs' = collect_glb_pairs(root[1])
    /\ dirs' = UNION {DirsOf(pairs'[i].path) : i \in 1..Len(pairs')}
    /\ pc' = "writing"
    /\ UNCHANGED <<lod_chains, config, root, files, done, write_failed,
                   manifest, result>>
    /\ UNCHANGED <<octVars, clipVars, mergeVars, atlasVars, lodVars, uriVars, callVars, compactVars, auxVars>>

\* fs::create_dir_all fails for pair i: the `?` returns the Output error.
CreateDirsFail ==
    /\ pc = "built"
    /\ pairs' = collect_glb_pairs(root[1])
    /\ \E i \in 1..Len(pairs') :
          dirs' = UNION {DirsOf(pairs'[j].path) : j \in 1..(i - 1)}
    /\ pc' = "failed"
    /\ result' = Err("Output")
    /\ UNCHANGED <<lod_chains, config, root, files, done, write_failed, manifest>>
    /\ UNCHANGED <<octVars, clipVars, mergeVars, atlasVars, lodVars, uriVars, callVars, compactVars, auxVars>>

\* One task of pairs.par_iter().try_for_each: fs::write succeeds.
WriteGlbOk(i) ==
    /\ pc = "writing"
    /\ i \notin done
    /\ DirsOf(pairs[i].path) \subseteq dirs
    /\ files' = FsWrite(files, pairs[i].path, pairs[i].data)
    /\ done' = done \cup {i}
    /\ UNCHANGED <<pc, lod_chains, config, root, pairs, dirs, write_failed,
                   manifest, result>>
    /\ UNCHANGED <<octVars, clipVars, mergeVars, atlasVars, lodVars, uriVars, callVars, compactVars, auxVars>>

\* One task of pairs.par_iter().try_for_each: fs::write fails.
WriteGlbFail(i) ==
    /\ pc = "writing"
    /\ i \notin done
    /\ write_failed' = TRUE
    /\ done' = done \cup {i}
    /\ UNCHANGED <<pc, lod_chains, config, root, pairs, dirs, files,
                   manifest, result>>
    /\ UNCHANGED <<octVars, clipVars, mergeVars, atlasVars, lodVars, uriVars, callVars, compactVars, auxVars>>

\* A join that does not wait for the tasks still to run.
JoinOk_Early ==
    /\ pc = "writing"
    /\ ~write_failed
    /\ pc' = "json"
    /\ UNCHANGED <<lod_chains, config, root, pairs, dirs, files, done,
                   write_failed, manifest, result>>
    /\ UNCHANGED <<octVars, clipVars, mergeVars, atlasVars, lodVars, uriVars, callVars, compactVars, auxVars>>

\* The join of try_for_each with every task Ok: Ok(pairs.len()) flows on.
JoinOk ==
    /\ pc = "writing"
    /\ ~write_failed
    /\ done = 1..Len(pairs)
    /\ pc' = "json"
    /\ UNCHANGED <<lod_chains, config, root, pairs, dirs, files, done,
                   write_failed, manifest, result>>
    /\ UNCHANGED <<octVars, clipVars, mergeVars, atlasVars, lodVars, uriVars, callVars, compactVars, auxVars>>

\* The join after a failed task: tasks not yet started may be skipped, and
\* the `?` in write_tileset returns the error.
JoinErr ==
    /\ pc = "writing"
    /\ write_failed
    /\ pc' = "failed"
    /\ result' = Err("Output")
    /\ UNCHANGED <<lod_chains, config, root, pairs, dirs, files, done,
                   write_failed, manifest>>
    /\ UNCHANGED <<octVars, clipVars, mergeVars, atlasVars, lodVars, uriVars, callVars, compactVars, auxVars>>

\* write_tileset, second half: fs::write(tileset.json) succeeds.
WriteManifestOk ==
    /\ pc = "json"
    /\ manifest' = Some(build_tileset_json(root[1], transform))
    /\ result' = Ok(Len(pairs))
    /\ pc' = "done"
    /\ UNCHANGED <<lod_chains, config, root, pairs, dirs, files, done, write_failed>>
    /\ UNCHANGED <<octVars, clipVars, mergeVars, atlasVars, lodVars, uriVars, callVars, compactVars, auxVars>>

\* write_tileset, second half: fs::write(tileset.json) fails.
WriteManifestFail ==
    /\ pc = "json"
    /\ result' = Err("Output")
    /\ pc' = "failed"
    /\ UNCHANGED <<lod_chains, config, root, pairs, dirs, files, done,
                   write_failed, manifest>>
    /\ UNCHANGED <<octVars, clipVars, mergeVars, atlasVars, lodVars, uriVars, callVars, compactVars, auxVars>>

\* The pipeline in an environment whose file operations all succeed.
TileNext ==
    \/ BuildTileset
    \/ CreateDirsOk
    \/ \E i \in 1..Len(pairs) : WriteGlbOk(i)
    \/ JoinOk
    \/ WriteManifestOk

Next == TileNext

Spec == Init /\ [][Next]_vars

\* The build step alone.
SpecBuild == Init /\ [][BuildTileset]_vars

\* The pipeline in an environment whose file operations may fail, on the
\* chains of at most FaultLevels levels over the meshes of at most
\* FaultMeshTris triangles, split to depth FaultDepth at most.
FaultMeshTris == 2
FaultLevels == 2
FaultDepth == 1

FaultInit ==
    /\ Init
    /\ lod_chains \in ChainsOf({MeshOf(S) : S \in SUBSET (1..FaultMeshTris)}, FaultLevels)
    /\ config \in ConfigsOf(FaultDepth)

FaultNext ==
    \/ TileNext
    \/ CreateDirsFail
    \/ \E i \in 1..Len(pairs) : WriteGlbFail(i)
    \/ JoinErr
    \/ WriteManifestFail

SpecFaults == FaultInit /\ [][FaultNext]_vars


(***************************************************************************)
(* Properties of the tile tree                                             *)
(***************************************************************************)
\* Every tile of a tree with its depth below the root: records [tile, depth].
RECURSIVE TilesAt(_, _)
TilesAt(node, depth) ==
    {[tile |-> node, depth |-> depth]}
    \cup UNION {TilesAt(node.children[k], depth + 1) : k \in 1..Len(node.children)}

\* Every parent/child pair of a tree: records [parent, child].
RECURSIVE Edges(_)
Edges(node) ==
    {[parent |-> node, child |-> node.children[k]] : k \in 1..Len(node.children)}
    \cup UNION {Edges(node.children[k]) : k \in 1..Len(node.children)}

IsInternal(tile) == tile.children /= <<>>

\* The number of LOD tiers above the octree tiles: the tiles at a depth
\* below it are built from an LOD level mesh.
LodDepth ==
    LET n == Len(LevelMeshes(lod_chains, 0, MaxLod(lod_chains)))
    IN  IF n <= 1 THEN 0 ELSE n - 1

Built == root /= None

NoRepeats(seq) == \A i, j \in 1..Len(seq) : seq[i] = seq[j] => i = j

GlbOnDisk == Cardinality(files)

\* C2: after write_tileset succeeds, the content-bearing tiles have pairwise
\* distinct URIs, and the number of .glb files on disk equals the returned
\* tile count, the number of content nodes of the tree.
C2_DistinctUris ==
    pc = "done" =>
        LET content == collect_glb_pairs(root[1])
        IN  /\ NoRepeats([i \in 1..Len(content) |-> content[i].path])
            /\ result = Ok(Len(content))
            /\ GlbOnDisk = result.value

ErrEps == RatNorm(1, 1000000)

\* The level errors of every input chain are non-negative and non-decreasing
\* with the level index.
ErrorsMonotone ==
    \A c \in 1..Len(lod_chains) : \A i, j \in 1..Len(lod_chains[c]) :
        /\ RLe(RZero, lod_chains[c][i].geometric_error)
        /\ lod_chains[c][i].level <= lod_chains[c][j].level
              => RLe(lod_chains[c][i].geometric_error, lod_chains[c][j].geometric_error)

\* C3: for every parent/child pair the child's geometric_error is at most
\* the parent's, within 1e-6.
C3_ErrorDecreasing ==
    (Built /\ ErrorsMonotone) =>
        \A e \in Edges(root[1]) :
            RLe(e.child.geometric_error, RAdd(e.parent.geometric_error, ErrEps))

\* The octants of the parent's bounds that the child's bounds are.
OctantsOf(parent, child) ==
    {i \in 0..7 : child.bounds = child_bounds(parent.bounds, i)}

\* C4: the root has address "root", a child of the root in octant i has
\* address "i", and a child of a non-root tile A in octant i has address
\* "A_i".
C4_OctantAddresses ==
    Built =>
        /\ root[1].address = RootAddress
        /\ \A e \in Edges(root[1]) : \A i \in OctantsOf(e.parent, e.child) :
              e.child.address =
                  IF e.parent.address = RootAddress THEN <<ToString(i)>>
                  ELSE Append(e.parent.address, ToString(i))


AllDirsCreated == \A i \in 1..Len(pairs) : DirsOf(pairs[i].path) \subseteq dirs

AllGlbWritten ==
    /\ done = 1..Len(pairs)
    /\ \A i \in 1..Len(pairs) : \E f \in files : f.path = pairs[i].path

\* C5: tileset.json is written only after every GLB file has been written;
\* every directory is created before any parallel write starts; and after a
\* failed directory creation or GLB write the call returns an Output error
\* and tileset.json is not written.
C5_ManifestAfterGlbs ==
    /\ manifest /= None => (AllGlbWritten /\ ~write_failed)
    /\ done /= {} => AllDirsCreated
    /\ write_failed => (manifest = None /\ pc \in {"writing", "failed"})
    /\ pc = "failed" => (result = Err("Output") /\ manifest = None)
    /\ (pc = "failed" /\ ~write_failed /\ done = {}) => files = {}

\* A GLB write failed while another was written, and the call returned the
\* Output error.
C5_Witness ==
    /\ pc = "failed"
    /\ write_failed
    /\ files /= {}
    /\ result = Err("Output")


(***************************************************************************)
(* build_octree_recursive as rayon runs it: one task per call              *)
(***************************************************************************)
\* A call is named by its octant path from the root call <<>>.  A task is
\*   "ready"   : spawned, its body has not run;
\*   "waiting" : its body has split the mesh and waits in collect();
\*   "done"    : returned, result holds the Option<Box<OctreeNode>>.
OctTask(state, mesh, bounds, depth, res) ==
    [state |-> state, mesh |-> mesh, bounds |-> bounds, depth |-> depth,
     result |-> res]

ChildPaths(p) == {Append(p, i) : i \in 0..7}

\* The order of completion after the call at path p has returned: the root
\* call is no item of a parallel iterator.
Finished(order, p) ==
    IF p = <<>> THEN order
    ELSE [order EXCEPT ![SubSeq(p, 1, Len(p) - 1)] = Append(@, p[Len(p)])]

\* The bounds on the meshes the tasks are run on and on max_depth.
OctMeshTris == 4
OctDepth == 1

OctInit ==
    /\ oct_input \in [mesh : {MeshOf(S) : S \in SUBSET (1..OctMeshTris)},
                      max_depth : 0..OctDepth,
                      max_triangles : 0..MaxTrisBound]
    /\ oct_tasks = [p \in {<<>>} |-> OctTask("ready", oct_input.mesh, RootBounds, 0, None)]
    /\ oct_order = <<>>
    /\ TileIdle /\ ClipIdle /\ MergeIdle /\ AtlasIdle /\ LodIdle /\ UriIdle /\ CallIdle /\ CompactIdle /\ AuxIdle

\* A call that returns the leaf whatever its mesh and depth are.
OctLeaf_Unconditional(p) ==
    /\ p \in DOMAIN oct_tasks
    /\ oct_tasks[p].state = "ready"
    /\ LET t == oct_tasks[p]
       IN  oct_tasks' =
                [oct_tasks EXCEPT ![p] =
                    OctTask("done", EmptyMesh, t.bounds, t.depth,
                            Some([bounds |-> t.bounds, mesh |-> t.mesh,
                                  children |-> NoChildren]))]
    /\ oct_order' = Finished(oct_order, p)
    /\ UNCHANGED <<oct_input, tileVars, clipVars, mergeVars, atlasVars, lodVars, uriVars, callVars, compactVars, auxVars>>

\* The body of a call whose leaf condition holds: it returns the leaf.
OctLeaf(p) ==
    /\ p \in DOMAIN oct_tasks
    /\ oct_tasks[p].state = "ready"
    /\ LET t == oct_tasks[p]
       IN  /\ triangle_count(t.mesh) <= oct_input.max_triangles
              \/ t.depth >= oct_input.max_depth
           /\ oct_tasks' =
                [oct_tasks EXCEPT ![p] =
                    OctTask("done", EmptyMesh, t.bounds, t.depth,
                            Some([bounds |-> t.bounds, mesh |-> t.mesh,
                                  children |-> NoChildren]))]
    /\ oct_order' = Finished(oct_order, p)
    /\ UNCHANGED <<oct_input, tileVars, clipVars, mergeVars, atlasVars, lodVars, uriVars, callVars, compactVars, auxVars>>

\* The octants of the items a split finishes at once, in index order: the
\* closure of an empty sub-mesh returns None without recursing.
RECURSIVE EmptyChildren(_, _)
EmptyChildren(sub_meshes, i) ==
    IF i > 7 THEN <<>>
    ELSE (IF is_empty(sub_meshes[i + 1]) THEN <<i>> ELSE <<>>)
         \o EmptyChildren(sub_meshes, i + 1)

\* The body of a call that splits: split_mesh, drop(mesh), and one parallel
\* item per octant.
OctSplit(p) ==
    /\ p \in DOMAIN oct_tasks
    /\ oct_tasks[p].state = "ready"
    /\ LET t == oct_tasks[p]
           sub_meshes == split_mesh(t.mesh, t.bounds)
       IN  /\ ~(triangle_count(t.mesh) <= oct_input.max_triangles
                \/ t.depth >= oct_input.max_depth)
           /\ oct_tasks' =
                [q \in DOMAIN oct_tasks \cup ChildPaths(p) |->
                    IF q = p THEN OctTask("waiting", EmptyMesh, t.bounds, t.depth, None)
                    ELSE IF q \in ChildPaths(p)
                    THEN LET i == q[Len(q)]
                         IN  IF is_empty(sub_meshes[i + 1])
                             THEN OctTask("done", EmptyMesh,
                                          child_bounds(t.bounds, i), t.depth + 1, None)
                             ELSE OctTask("ready", sub_meshes[i + 1],
                                          child_bounds(t.bounds, i), t.depth + 1, None)
                    ELSE oct_tasks[q]]
           /\ oct_order' = [q \in DOMAIN oct_order \cup {p} |->
                                IF q = p THEN EmptyChildren(sub_meshes, 0)
                                ELSE oct_order[q]]
    /\ UNCHANGED <<oct_input, tileVars, clipVars, mergeVars, atlasVars, lodVars, uriVars, callVars, compactVars, auxVars>>

\* A collect that appends the results as the items finish.
Collect_AsFinished(tasks, order, p) ==
    [k \in 1..8 |-> tasks[Append(p, order[p][k])].result]

\* collect() of the indexed parallel iterator followed by try_into(): the
\* result of item i is element i, whenever it finished.
Collect(tasks, order, p) ==
    [i1 \in 1..8 |-> tasks[Append(p, i1 - 1)].result]

\* collect() returns once every item has finished; the call returns the
\* internal node.
OctJoin(p) ==
    /\ p \in DOMAIN oct_tasks
    /\ oct_tasks[p].state = "waiting"
    /\ \A q \in ChildPaths(p) : oct_tasks[q].state = "done"
    /\ oct_tasks' =
         [oct_tasks EXCEPT ![p] =
             OctTask("done", EmptyMesh, @.bounds, @.depth,
                     Some([bounds |-> @.bounds, mesh |-> EmptyMesh,
                           children |-> Collect(oct_tasks, oct_order, p)]))]
    /\ oct_order' = Finished(oct_order, p)
    /\ UNCHANGED <<oct_input, tileVars, clipVars, mergeVars, atlasVars, lodVars, uriVars, callVars, compactVars, auxVars>>

OctNext ==
    \/ \E p \in DOMAIN oct_tasks : OctLeaf(p)
    \/ \E p \in DOMAIN oct_tasks : OctSplit(p)
    \/ \E p \in DOMAIN oct_tasks : OctJoin(p)

SpecOctree == OctInit /\ [][OctNext]_vars

OctDone == oct_tasks /= <<>> /\ oct_tasks[<<>>].state = "done"

\* Every child of an octree node sits at the index of the octant its bounds
\* are.
RECURSIVE ChildrenAtOctant(_)
ChildrenAtOctant(node) ==
    \A i1 \in 1..8 :
        node.children[i1] /= None =>
            /\ node.children[i1][1].bounds = child_bounds(node.bounds, i1 - 1)
            /\ ChildrenAtOctant(node.children[i1][1])

\* The addresses of a tile's children ascend with their position.
RECURSIVE ChildListAscending(_)
ChildListAscending(tile) ==
    /\ \A i, j \in 1..Len(tile.children) :
          i < j => \E a, b \in 0..7 :
                      /\ tile.children[i].address = Append(tile.address, ToString(a))
                      /\ tile.children[j].address = Append(tile.address, ToString(b))
                      /\ a < b
    /\ \A i \in 1..Len(tile.children) : ChildListAscending(tile.children[i])

\* C6: in whatever order the parallel sibling tasks finish, the tree is the
\* one the sequential recursion builds: every child at its octant's index,
\* the tile children in ascending octant order, hence one tile tree and one
\* manifest per input.
C6_BuildDeterministic ==
    OctDone =>
        LET tree == oct_tasks[<<>>].result[1]
            seq_tree == build_octree(oct_input.mesh, RootBounds, oct_input.max_depth,
                                     oct_input.max_triangles)
            tile == octree_to_tile_node(tree, RootAddress, 0, RootBounds)
        IN  /\ tree = seq_tree
            /\ ChildrenAtOctant(tree)
            /\ ChildListAscending(tile)
            /\ build_tileset_json(tile, IdentityTransform)
                 = build_tileset_json(
                       octree_to_tile_node(seq_tree, RootAddress, 0, RootBounds),
                       IdentityTransform)

\* Two sibling sub-trees were built, the one of the higher octant finishing
\* first.
C6_Witness ==
    /\ OctDone
    /\ <<>> \in DOMAIN oct_order
    /\ \E i, j \in 1..8 :
          /\ i < j
          /\ oct_order[<<>>][i] > oct_order[<<>>][j]
          /\ oct_tasks[<<oct_order[<<>>][i]>>].result /= None
          /\ oct_tasks[<<oct_order[<<>>][j]>>].result /= None


(***************************************************************************)
(* split_mesh_clipping, one iteration of its loop at a time                *)
(***************************************************************************)
ClipBounds == [min |-> P(0, 0, 0), max |-> P(4, 4, 4)]

\* Triangles on the integer grid inside ClipBounds, whose centre is (2,2,2).
ClipCatalog ==
    << <<P(0, 0, 0), P(1, 0, 0), P(0, 1, 0)>>,      \* inside octant 0
       <<P(1, 0, 0), P(1, 1, 0), P(0, 1, 0)>>,      \* octant 0, shares an edge with 1
       <<P(1, 1, 1), P(3, 1, 1), P(1, 3, 1)>>,      \* crosses x = 2 and y = 2
       <<P(1, 1, 2), P(3, 1, 2), P(1, 3, 2)>>,      \* lies in the plane z = 2
       <<P(1, 0, 1), P(3, 1, 1), P(1, 1, 1)>>,      \* crosses x = 2
       <<P(2, 0, 1), P(1, 1, 1), P(3, 1, 1)>>,      \* a vertex on x = 2
       <<P(2, 0, 1), P(2, 1, 1), P(1, 0, 1)>>,      \* an edge on x = 2
       <<P(3, 3, 3), P(4, 3, 3), P(3, 4, 3)>> >>    \* inside octant 7

\* The bound on the triangles of a clipped mesh.
ClipTris == 2

\* The ascending sequences of 1 to ClipTris catalogue indices.
ClipChoices ==
    {SortedSeq(S) : S \in {T \in SUBSET (1..Len(ClipCatalog)) :
                              Cardinality(T) \in 1..ClipTris}}

\* The mesh of the catalogue triangles ts, three vertices of its own per
\* triangle; with attrs every vertex has a normal, a UV and a colour, and the
\* UV differs between the vertices of different triangles.
ClipMeshOf(ts, attrs) ==
    LET n == 3 * Len(ts)
        tri(v) == ((v - 1) \div 3) + 1
        slot(v) == ((v - 1) % 3) + 1
    IN  [positions |-> [v \in 1..n |-> ClipCatalog[ts[tri(v)]][slot(v)]],
         normals |-> IF attrs THEN [v \in 1..n |-> P(0, 0, 1)] ELSE <<>>,
         uvs |-> IF attrs THEN [v \in 1..n |-> <<RatNorm(tri(v), 4), RatNorm(slot(v), 4)>>]
                 ELSE <<>>,
         colors |-> IF attrs THEN [v \in 1..n |-> <<RatNorm(slot(v), 4), R(1), R(1), R(1)>>]
                    ELSE <<>>,
         indices |-> [k \in 1..n |-> k - 1],
         material_index |-> None]

ClipMeshes ==
    {ClipMeshOf(ts, attrs) :
        ts \in ClipChoices, attrs \in BOOLEAN}

\* Vertex idx (0-based) of a builder, with the attributes the builder keeps.
VertexAt(b, idx) ==
    [pos    |-> b.positions[idx + 1],
     normal |-> IF b.has_normals THEN b.normals[idx + 1] ELSE ZeroVec(3),
     uv     |-> IF b.has_uvs THEN b.uvs[idx + 1] ELSE ZeroVec(2),
     color  |-> IF b.has_colors THEN b.colors[idx + 1] ELSE ZeroVec(4)]

\* The triangles an iteration appended to a builder: before, after.
Emitted(b, b2) ==
    [f \in 1..((Len(b2.indices) - Len(b.indices)) \div 3) |->
        [j \in 1..3 |-> VertexAt(b2, b2.indices[Len(b.indices) + 3 * (f - 1) + j])]]

ClipInit ==
    /\ clip_mesh \in ClipMeshes
    /\ clip_k = 0
    /\ clip_builders = InitialBuilders(clip_mesh)
    /\ clip_last = [oct1 \in 1..8 |-> <<>>]
    /\ clip_out = None
    /\ TileIdle /\ OctIdle /\ MergeIdle /\ AtlasIdle /\ LodIdle /\ UriIdle /\ CallIdle /\ CompactIdle /\ AuxIdle

ClipIterate ==
    /\ clip_builders' = SplitStep(clip_builders, clip_mesh, ClipBounds, clip_k + 1)
    /\ clip_last' = [oct1 \in 1..8 |-> Emitted(clip_builders[oct1], clip_builders'[oct1])]
    /\ clip_k' = clip_k + 1
    /\ UNCHANGED <<clip_mesh, clip_out, tileVars, octVars, mergeVars, atlasVars, lodVars, uriVars, callVars, compactVars, auxVars>>

\* An iteration on the fast path: the three vertices are in one octant.
ClipFast ==
    /\ clip_out = None
    /\ clip_k < triangle_count(clip_mesh)
    /\ IsFastPath(clip_mesh, ClipBounds, clip_k + 1)
    /\ ClipIterate

\* An iteration on the slow path: the triangle is clipped to all 8 octants.
ClipSlow ==
    /\ clip_out = None
    /\ clip_k < triangle_count(clip_mesh)
    /\ ~IsFastPath(clip_mesh, ClipBounds, clip_k + 1)
    /\ ClipIterate

\* After the loop: every builder is built.
ClipBuild ==
    /\ clip_out = None
    /\ clip_k = triangle_count(clip_mesh)
    /\ clip_out' = Some([oct1 \in 1..8 |-> build(clip_builders[oct1],
                                                 clip_mesh.material_index)])
    /\ UNCHANGED <<clip_mesh, clip_k, clip_builders, clip_last, tileVars, octVars,
                   mergeVars, atlasVars, lodVars, uriVars, callVars, compactVars, auxVars>>

ClipNext == ClipFast \/ ClipSlow \/ ClipBuild

SpecClip == ClipInit /\ [][ClipNext]_vars

VSub(p, q) == [i \in 1..3 |-> RSub(p[i], q[i])]
Cross(u, v) ==
    <<RSub(RMul(u[2], v[3]), RMul(u[3], v[2])),
      RSub(RMul(u[3], v[1]), RMul(u[1], v[3])),
      RSub(RMul(u[1], v[2]), RMul(u[2], v[1]))>>
Dot(u, v) == RAdd(RAdd(RMul(u[1], v[1]), RMul(u[2], v[2])), RMul(u[3], v[3]))

\* Twice the area vector of a triangle of three positions.
AreaVec(p0, p1, p2) == Cross(VSub(p1, p0), VSub(p2, p0))

RECURSIVE RSum(_)
RSum(seq) == IF seq = <<>> THEN RZero ELSE RAdd(seq[1], RSum(Tail(seq)))

\* The area of the fragments the last iteration emitted, over the area of
\* the triangle it processed.  A fragment lies in the triangle's plane, so
\* its area vector is a multiple of the triangle's, and the ratio of the
\* areas is the absolute value of that multiple.
AreaRatio ==
    LET tv == TriVerts(clip_mesh, clip_k)
        nrm == AreaVec(tv[1].pos, tv[2].pos, tv[3].pos)
        part(f) == RAbs(RDiv(Dot(AreaVec(f[1].pos, f[2].pos, f[3].pos), nrm),
                             Dot(nrm, nrm)))
    IN  RSum([oct1 \in 1..8 |->
                RSum([f \in 1..Len(clip_last[oct1]) |-> part(clip_last[oct1][f])])])

AreaTol == RatNorm(1, 10000)

Iterated == clip_k >= 1 /\ clip_out = None

\* C7: for each input triangle the areas of the emitted fragments sum to the
\* triangle's area, within a relative 1e-4.
C7_AreaConserved ==
    Iterated => RLe(RAbs(RSub(AreaRatio, R(1))), AreaTol)

\* The attributes of a working vertex that the mesh has.
AttrsOf(v) == [pos |-> v.pos, normal |-> v.normal, uv |-> v.uv, color |-> v.color]

\* C8: a triangle of the fast path is emitted exactly once, into the octant
\* of its vertices only, with the positions, normals, UVs and colours of its
\* three input vertices.
C8_FastPathVerbatim ==
    (Iterated /\ IsFastPath(clip_mesh, ClipBounds, clip_k)) =>
        LET tv == TriVerts(clip_mesh, clip_k)
            oct == TriOctants(clip_mesh, ClipBounds, clip_k)[1]
        IN  /\ \A oct1 \in 1..8 : oct1 /= oct + 1 => clip_last[oct1] = <<>>
            /\ clip_last[oct + 1] = <<[j \in 1..3 |-> AttrsOf(tv[j])]>>


\* The octant on the other side of the split plane of an axis.
OctantAcross(oct, axis) ==
    LET step == CASE axis = 1 -> 1 [] axis = 2 -> 2 [] axis = 3 -> 4
    IN  IF OctBit(oct, axis) THEN oct - step ELSE oct + step

\* v was cut from an edge that crosses the split plane of the axis.
CutBySplitPlane(v, axis) ==
    /\ v.crossing
    /\ v.src[1] = -axis
    /\ <<v.src[2], v.src[3]>> = center(ClipBounds)[axis]

\* The polygon the triangle of the last iteration leaves in an octant.
LastPolygon(oct) == ClippedPolygon(clip_mesh, ClipBounds, clip_k, oct)

InPositions(b, pos) == \E i \in 1..Len(b.positions) : b.positions[i] = pos

\* Vertex i of the polygon of octant oct has a twin across the plane of the
\* axis: the same computation, the same position and attributes, emitted.
HasTwinAcross(oct, axis, i) ==
    LET v == LastPolygon(oct)[i]
        other == OctantAcross(oct, axis)
        twins == LastPolygon(other)
    IN  /\ \E j \in 1..Len(twins) :
              /\ twins[j].src = v.src
              /\ twins[j].pos = v.pos
              /\ AttrsOf(twins[j]) = AttrsOf(v)
        /\ Len(LastPolygon(oct)) >= 3 => InPositions(clip_builders[oct + 1], v.pos)
        /\ Len(twins) >= 3 => InPositions(clip_builders[other + 1], v.pos)

\* C9: where an edge crosses a split plane, the vertex emitted into the
\* octant on one side and the vertex emitted into the adjacent octant on the
\* other side come from the same endpoints in the same order, the same plane
\* value and the same t, and have the same position.  (On the grid no two
\* distinct positions share a PositionKey, so add_vertex never replaces a
\* cut vertex by a vertex less than a quantum away from it.)
C9_SharedCutVertices ==
    (Iterated /\ ~IsFastPath(clip_mesh, ClipBounds, clip_k)) =>
        \A oct \in 0..7 : \A axis \in 1..3 : \A i \in 1..Len(LastPolygon(oct)) :
            CutBySplitPlane(LastPolygon(oct)[i], axis) => HasTwinAcross(oct, axis, i)

\* A triangle was clipped, and a cut vertex of the plane x = 2 is part of
\* the polygons of the octants 0 and 1.
C9_Witness ==
    /\ Iterated
    /\ ~IsFastPath(clip_mesh, ClipBounds, clip_k)
    /\ Len(LastPolygon(0)) >= 3
    /\ Len(LastPolygon(1)) >= 3
    /\ \E i \in 1..Len(LastPolygon(0)) :
          /\ CutBySplitPlane(LastPolygon(0)[i], 1)
          /\ HasTwinAcross(0, 1, i)


(***************************************************************************)
(* build_tileset's merge of one LOD level, one chain at a time             *)
(***************************************************************************)
\* The bound on the number of chains that contribute a mesh to the level.
MergeLen == 3

\* Two triangles over four vertices, the diagonal shared.
QuadMesh ==
    [EmptyMesh EXCEPT
        !.positions = <<P(4, 4, 4), P(6, 4, 4), P(6, 6, 4), P(4, 6, 4)>>,
        !.indices = <<0, 1, 2, 0, 2, 3>>]

\* A contributor: no vertex, one triangle or a quad, with or without a
\* material.
Contributors ==
    {[m EXCEPT !.material_index = mat] :
        m \in {EmptyMesh, MeshOf({2}), QuadMesh}, mat \in {None, Some(0), Some(1)}}

MergeInit ==
    /\ merge_inputs \in UNION {[1..n -> Contributors] : n \in 1..MergeLen}
    /\ merge_k = 0
    /\ merged = EmptyMesh
    /\ TileIdle /\ OctIdle /\ ClipIdle /\ AtlasIdle /\ LodIdle /\ UriIdle /\ CallIdle /\ CompactIdle /\ AuxIdle

\* merged = merge_meshes(&merged, &level.mesh) for the next chain.
MergeStep ==
    /\ merge_k < Len(merge_inputs)
    /\ merged' = merge_meshes(merged, merge_inputs[merge_k + 1])
    /\ merge_k' = merge_k + 1
    /\ UNCHANGED <<merge_inputs, tileVars, octVars, clipVars, atlasVars, lodVars, uriVars, callVars, compactVars, auxVars>>

SpecMerge == MergeInit /\ [][MergeStep]_vars

NonEmpty(m) == ~is_empty(m)
NonEmptyWithMaterial(m) == ~is_empty(m) /\ m.material_index /= None

\* The non-empty contributors merged so far, and those of them that carry a
\* material index, in order.
NonEmptySoFar == SelectSeq(SubSeq(merge_inputs, 1, merge_k), NonEmpty)
WithMaterialSoFar == SelectSeq(SubSeq(merge_inputs, 1, merge_k), NonEmptyWithMaterial)

\* C10 as claimed: the merged mesh has the material_index of the first
\* non-empty contributor.
C10_FirstNonEmptyMaterial ==
    NonEmptySoFar /= <<>> =>
        merged.material_index = NonEmptySoFar[1].material_index

\* C10 amended: the merged mesh has the material_index of the first
\* non-empty contributor that carries one, and none when no non-empty
\* contributor carries one.
C10_FirstMaterialOfNonEmpty ==
    NonEmptySoFar /= <<>> =>
        merged.material_index =
            IF WithMaterialSoFar = <<>> THEN None
            ELSE WithMaterialSoFar[1].material_index

\* The first non-empty contributor has no material, a later one has, and the
\* merged mesh carries the later one's.
C10_Witness ==
    /\ merge_k = Len(merge_inputs)
    /\ NonEmptySoFar /= <<>>
    /\ NonEmptySoFar[1].material_index = None
    /\ WithMaterialSoFar /= <<>>
    /\ merged.material_index = WithMaterialSoFar[1].material_index

\* The number of vertices, and of indices, of the contributors before the
\* c-th.
RECURSIVE VertsBefore(_)
VertsBefore(c) ==
    IF c = 1 THEN 0 ELSE VertsBefore(c - 1) + vertex_count(merge_inputs[c - 1])

RECURSIVE IndicesBefore(_)
IndicesBefore(c) ==
    IF c = 1 THEN 0 ELSE IndicesBefore(c - 1) + Len(merge_inputs[c - 1].indices)

RECURSIVE TrianglesBefore(_)
TrianglesBefore(c) ==
    IF c = 1 THEN 0 ELSE TrianglesBefore(c - 1) + triangle_count(merge_inputs[c - 1])

\* C11: the merged mesh holds the contributors' vertices in contributor
\* order, every index of a contributor is offset by the number of vertices
\* before that contributor, is below the merged vertex count and refers to
\* the position it referred to in its contributor, and the merged triangle
\* count is the sum of the contributors' triangle counts.
C11_IndicesOffset ==
    /\ vertex_count(merged) = VertsBefore(merge_k + 1)
    /\ triangle_count(merged) = TrianglesBefore(merge_k + 1)
    /\ Len(merged.indices) = IndicesBefore(merge_k + 1)
    /\ \A c \in 1..merge_k :
         LET m == merge_inputs[c] IN
         /\ \A v \in 1..vertex_count(m) :
                merged.positions[VertsBefore(c) + v] = m.positions[v]
         /\ \A j \in 1..Len(m.indices) :
                LET i == merged.indices[IndicesBefore(c) + j] IN
                /\ i = m.indices[j] + VertsBefore(c)
                /\ i < vertex_count(merged)
                /\ merged.positions[i + 1] = m.positions[m.indices[j] + 1]

\* All contributors are merged, a quad came before a triangle, and the
\* triangle's first index is offset past the quad's four vertices.
C11_Witness ==
    /\ merge_k = Len(merge_inputs)
    /\ \E c \in 2..merge_k :
         /\ VertsBefore(c) = 4
         /\ triangle_count(merge_inputs[c]) = 1
         /\ merge_inputs[c].indices[1] = 0
         /\ merged.indices[IndicesBefore(c) + 1] = 4
         /\ triangle_count(merged) >= 3

\* ---------------------------------------------------------------------
\* tiling/atlas_repacker.rs: the guillotine packer.
\* A sized island is <<island_idx, inner_w, inner_h, padding>>.

\* u32::next_power_of_two
RECURSIVE PowerOfTwoFrom(_, _)
PowerOfTwoFrom(p, n) == IF p >= n THEN p ELSE PowerOfTwoFrom(2 * p, n)
next_power_of_two(n) == PowerOfTwoFrom(1, n)

Max2(a, b) == IF a >= b THEN a ELSE b
Min2(a, b) == IF a <= b THEN a ELSE b

total_w(sz) == sz[2] + sz[4] * 2
total_h(sz) == sz[3] + sz[4] * 2
max_dim(sz) == Max2(total_w(sz), total_h(sz))

\* order.sort_by(max_b.cmp(&max_a)): a stable sort of the positions
\* 1..Len(sized), the larger total dimension first.
RECURSIVE InsertByMaxDim(_, _, _)
InsertByMaxDim(sized, order, a) ==
    IF order = <<>> THEN <<a>>
    ELSE IF max_dim(sized[Head(order)]) >= max_dim(sized[a])
         THEN <<Head(order)>> \o InsertByMaxDim(sized, Tail(order), a)
         ELSE <<a>> \o order

RECURSIVE SortFrom(_, _, _)
SortFrom(sized, order, a) ==
    IF a > Len(sized) THEN order
    ELSE SortFrom(sized, InsertByMaxDim(sized, order, a), a + 1)

pack_order(sized) == SortFrom(sized, <<>>, 1)

FreeRect(x, y, w, h) == [x |-> x, y |-> y, w |-> w, h |-> h]

\* The first free rectangle with the least short-side leftover among those
\* that hold w x h; 0 when none does.  best_short_side starts at u32::MAX,
\* above every leftover, so the first rectangle that fits is always taken.
RECURSIVE BssfFrom(_, _, _, _, _, _)
BssfFrom(free_rects, w, h, i, best_idx, best_short_side) ==
    IF i > Len(free_rects) THEN best_idx
    ELSE LET rect == free_rects[i]
             short_side == Min2(rect.w - w, rect.h - h)
         IN  IF rect.w >= w /\ rect.h >= h
                /\ (best_idx = 0 \/ short_side < best_short_side)
             THEN BssfFrom(free_rects, w, h, i + 1, i, short_side)
             ELSE BssfFrom(free_rects, w, h, i + 1, best_idx, best_short_side)

find_bssf(free_rects, w, h) == BssfFrom(free_rects, w, h, 1, 0, 0)

\* A split whose right-hand rectangle runs the full height of rect.
guillotine_split_FullHeight(free_rects, rect, w, h) ==
    LET right_w == rect.w - w
        below_h == rect.h - h
        right == IF right_w > 0
                 THEN <<FreeRect(rect.x + w, rect.y, right_w, rect.h)>> ELSE <<>>
        below == IF below_h > 0
                 THEN <<FreeRect(rect.x, rect.y + h, rect.w, below_h)>> ELSE <<>>
    IN  free_rects \o right \o below

\* free_rects after the split of rect around a w x h block at its corner.
guillotine_split(free_rects, rect, w, h) ==
    LET right_w == rect.w - w
        below_h == rect.h - h
        right == IF right_w > 0
                 THEN <<FreeRect(rect.x + w, rect.y, right_w, h)>> ELSE <<>>
        below == IF below_h > 0
                 THEN <<FreeRect(rect.x, rect.y + h, rect.w, below_h)>> ELSE <<>>
    IN  free_rects \o right \o below

RemoveAt(seq, i) == SubSeq(seq, 1, i - 1) \o SubSeq(seq, i + 1, Len(seq))

RECURSIVE TryPackFrom(_, _, _, _, _)
TryPackFrom(order, sized, k, free_rects, placements) ==
    IF k > Len(order) THEN Some(placements)
    ELSE LET sz == sized[order[k]]
             best == find_bssf(free_rects, total_w(sz), total_h(sz))
         IN  IF best = 0 THEN None
             ELSE LET rect == free_rects[best]
                  IN  TryPackFrom(order, sized, k + 1,
                          guillotine_split(RemoveAt(free_rects, best), rect,
                                           total_w(sz), total_h(sz)),
                          Append(placements,
                                 [island_idx |-> sz[1], x |-> rect.x, y |-> rect.y,
                                  inner_w |-> sz[2], inner_h |-> sz[3],
                                  padding |-> sz[4]]))

try_pack(order, sized, atlas_w, atlas_h) ==
    TryPackFrom(order, sized, 1, <<FreeRect(0, 0, atlas_w, atlas_h)>>, <<>>)

\* Option::unwrap_or_default on the placements
unwrap_or_default(opt) == IF opt = None THEN <<>> ELSE opt[1]

SafetyLimit == 16384
MinAtlas == 64

initial_atlas_w(sized) ==
    Max2(next_power_of_two(total_w(sized[pack_order(sized)[1]])), MinAtlas)
initial_atlas_h(sized) ==
    Max2(next_power_of_two(total_h(sized[pack_order(sized)[1]])), MinAtlas)

\* "Grow: double the smaller dimension"
grown_w(atlas_w, atlas_h) == IF atlas_w <= atlas_h THEN atlas_w * 2 ELSE atlas_w
grown_h(atlas_w, atlas_h) == IF atlas_w <= atlas_h THEN atlas_h ELSE atlas_h * 2

\* The loop of guillotine_pack from an atlas of atlas_w x atlas_h.
RECURSIVE PackLoop(_, _, _, _)
PackLoop(order, sized, atlas_w, atlas_h) ==
    LET packed == try_pack(order, sized, atlas_w, atlas_h)
        w2 == grown_w(atlas_w, atlas_h)
        h2 == grown_h(atlas_w, atlas_h)
    IN  IF packed /= None THEN packed[1]
        ELSE IF w2 > SafetyLimit \/ h2 > SafetyLimit
             THEN unwrap_or_default(try_pack(order, sized, w2, h2))
             ELSE PackLoop(order, sized, w2, h2)

guillotine_pack(sized) ==
    PackLoop(pack_order(sized), sized, initial_atlas_w(sized), initial_atlas_h(sized))

\* compute_atlas_size
compute_atlas_size(placements) ==
    LET right(i) == placements[i].x + placements[i].inner_w + placements[i].padding * 2
        bottom(i) == placements[i].y + placements[i].inner_h + placements[i].padding * 2
        extents == {0} \cup {right(i) : i \in 1..Len(placements)}
                       \cup {bottom(i) : i \in 1..Len(placements)}
    IN  Max2(next_power_of_two(SetMax(extents)), 1)

\* ---------------------------------------------------------------------
\* tiling/atlas_repacker.rs: UV islands.  Faces are numbered from 0; uvs[i]
\* is the i-th vertex's <<u, v>>.

Corner(mesh, face, v) == mesh.indices[face * 3 + v + 1]
FaceUv(mesh, face, v) == mesh.uvs[Corner(mesh, face, v) + 1]
Faces(mesh) == 0..(triangle_count(mesh) - 1)

EdgeKey(va, vb) == IF va < vb THEN <<va, vb>> ELSE <<vb, va>>

\* The entries pushed for a face: its three edges with the UVs at their ends.
EdgeEntries(mesh, face) ==
    {[key |-> EdgeKey(Corner(mesh, face, e), Corner(mesh, face, (e + 1) % 3)),
      face |-> face,
      uv_a |-> FaceUv(mesh, face, e),
      uv_b |-> FaceUv(mesh, face, (e + 1) % 3)] : e \in 0..2}

UvEps == RatNorm(1, 100000)

uv_close(a, b, eps) ==
    /\ RLt(RAbs(RSub(a[1], b[1])), eps)
    /\ RLt(RAbs(RSub(a[2], b[2])), eps)

\* The faces listed for an edge: those whose UVs at the edge's ends match
\* another face's on the same edge, in either order.
build_edge_adjacency(mesh) ==
    LET entries == UNION {EdgeEntries(mesh, f) : f \in Faces(mesh)}
        matches(a, b) ==
            /\ a.key = b.key
            /\ a.face /= b.face
            /\ \/ uv_close(a.uv_a, b.uv_a, UvEps) /\ uv_close(a.uv_b, b.uv_b, UvEps)
               \/ uv_close(a.uv_a, b.uv_b, UvEps) /\ uv_close(a.uv_b, b.uv_a, UvEps)
        adj_faces(key) ==
            {a.face : a \in {e \in entries : e.key = key /\ \E b \in entries : matches(e, b)}}
        keys == {e.key : e \in entries}
    IN  [key \in {k \in keys : adj_faces(k) /= {}} |-> adj_faces(key)]

\* face_adj[face]: every other face listed with it on some edge.
face_adj(adjacency, face) ==
    UNION {adjacency[k] \ {face} : k \in {q \in DOMAIN adjacency : face \in adjacency[q]}}

Orderings(S) ==
    {o \in [1..Cardinality(S) -> S] : \A i, j \in 1..Cardinality(S) : o[i] = o[j] => i = j}

SeqRange(seq) == {seq[i] : i \in 1..Len(seq)}

\* The orders in which the breadth-first search can pop the faces of one
\* island.  face_adj[face] lists the neighbours in the iteration order of a
\* HashMap, which the program does not fix: every order is possible.
RECURSIVE BfsOrders(_, _, _)
BfsOrders(adjacency, queue, visited) ==
    IF queue = <<>> THEN {<<>>}
    ELSE LET face == Head(queue)
             fresh == face_adj(adjacency, face) \ visited
         IN  UNION {{<<face>> \o rest :
                        rest \in BfsOrders(adjacency, Tail(queue) \o o, visited \cup fresh)} :
                    o \in Orderings(fresh)}

RMin(a, b) == IF RLe(a, b) THEN a ELSE b
RMax(a, b) == IF RLe(a, b) THEN b ELSE a

RECURSIVE RMinOf(_)
RMinOf(seq) == IF Len(seq) = 1 THEN seq[1] ELSE RMin(seq[1], RMinOf(Tail(seq)))
RECURSIVE RMaxOf(_)
RMaxOf(seq) == IF Len(seq) = 1 THEN seq[1] ELSE RMax(seq[1], RMaxOf(Tail(seq)))

\* The UvIsland of the faces in island_faces: the bounds of their corners' UVs.
UvIsland(mesh, island_faces) ==
    LET n == 3 * Len(island_faces)
        uv(k) == FaceUv(mesh, island_faces[((k - 1) \div 3) + 1], (k - 1) % 3)
        us == [k \in 1..n |-> uv(k)[1]]
        vs == [k \in 1..n |-> uv(k)[2]]
    IN  [faces |-> island_faces,
         uv_min |-> <<RMinOf(us), RMinOf(vs)>>,
         uv_max |-> <<RMaxOf(us), RMaxOf(vs)>>]

\* The island lists detect_islands can return: one island per unvisited
\* start face, in ascending order of start.
RECURSIVE DetectFrom(_, _, _, _)
DetectFrom(mesh, adjacency, start, visited) ==
    IF start >= triangle_count(mesh) THEN {<<>>}
    ELSE IF start \in visited THEN DetectFrom(mesh, adjacency, start + 1, visited)
    ELSE UNION {{<<UvIsland(mesh, o)>> \o rest :
                    rest \in DetectFrom(mesh, adjacency, start + 1,
                                        visited \cup SeqRange(o))} :
                o \in BfsOrders(adjacency, <<start>>, {start})}

detect_islands(mesh, adjacency) == DetectFrom(mesh, adjacency, 0, {})

\* f32::ceil of a rational, as an integer
RCeil(r) == -((-r[1]) \div r[2])

\* Step 3 of repack_atlas: <<i, px_w, px_h, padding>> for the i-th island
\* (i from 0).
sized_island(islands, i, src_w, src_h, max_size) ==
    LET island == islands[i + 1]
        u_range == RSub(island.uv_max[1], island.uv_min[1])
        v_range == RSub(island.uv_max[2], island.uv_min[2])
        px_w == Min2(Max2(RCeil(RMul(u_range, R(src_w))), 1), max_size)
        px_h == Min2(Max2(RCeil(RMul(v_range, R(src_h))), 1), max_size)
        md == Max2(px_w, px_h)
        padding == IF md > 512 THEN 5 ELSE IF md > 128 THEN 3 ELSE 2
    IN  <<i, px_w, px_h, padding>>

sized_islands(islands, src_w, src_h, max_size) ==
    [k \in 1..Len(islands) |-> sized_island(islands, k - 1, src_w, src_h, max_size)]

\* ---------------------------------------------------------------------
\* tiling/atlas_repacker.rs: remap_uvs_with_dedup.

\* placement_map.get(&island_idx): the last placement inserted for the island.
placement_of(placements, island_idx) ==
    LET hits == {i \in 1..Len(placements) : placements[i].island_idx = island_idx}
    IN  IF hits = {} THEN None ELSE Some(placements[SetMax(hits)])

RangeEps == RatNorm(1, 100000000)

\* uv_range, replaced by 1.0 when below 1e-8
uv_range(island, axis) ==
    LET r == RSub(island.uv_max[axis], island.uv_min[axis])
    IN  IF RLt(r, RangeEps) THEN R(1) ELSE r

\* The atlas UV of a source UV of the island: normalised within the island's
\* UV bounds, mapped to the placement's inner pixels with a half-texel inset.
atlas_uv(old_uv, island, placement, atlas_size) ==
    LET norm_u == RDiv(RSub(old_uv[1], island.uv_min[1]), uv_range(island, 1))
        norm_v == RDiv(RSub(old_uv[2], island.uv_min[2]), uv_range(island, 2))
    IN  <<RDiv(RAdd(RAdd(RMul(norm_u, R(placement.inner_w - 1)), RHalf),
                    R(placement.x + placement.padding)), R(atlas_size)),
          RDiv(RAdd(RAdd(RMul(norm_v, R(placement.inner_h - 1)), RHalf),
                    R(placement.y + placement.padding)), R(atlas_size))>>

\* The buffers under construction and vertex_island, before the loops.
RemapStart(mesh) ==
    [positions |-> mesh.positions, normals |-> mesh.normals, uvs |-> mesh.uvs,
     colors |-> mesh.colors, indices |-> mesh.indices,
     vertex_island |-> [i \in 1..vertex_count(mesh) |-> None]]

\* One pass of the innermost loop: corner v of face, in the island island_idx.
remap_corner(mesh, st, island_idx, island, placement, atlas_size, face, v) ==
    LET original_vi == Corner(mesh, face, v)
        fi == face * 3 + v
        owner == st.vertex_island[original_vi + 1]
        duplicate == owner /= None /\ owner /= Some(island_idx)
        vi == IF duplicate THEN Len(st.positions) ELSE original_vi
        grown == IF duplicate
                 THEN [st EXCEPT
                         !.positions = Append(@, mesh.positions[original_vi + 1]),
                         !.normals = IF has_normals(mesh)
                                     THEN Append(@, mesh.normals[original_vi + 1]) ELSE @,
                         !.uvs = Append(@, mesh.uvs[original_vi + 1]),
                         !.colors = IF has_colors(mesh)
                                    THEN Append(@, mesh.colors[original_vi + 1]) ELSE @,
                         !.indices[fi + 1] = vi]
                 ELSE [st EXCEPT !.vertex_island[original_vi + 1] = Some(island_idx)]
    IN  [grown EXCEPT
            !.uvs[vi + 1] = atlas_uv(mesh.uvs[original_vi + 1], island, placement, atlas_size)]

RECURSIVE RemapIsland(_, _, _, _, _, _, _)
RemapIsland(mesh, st, island_idx, island, placement, atlas_size, k) ==
    IF k >= 3 * Len(island.faces) THEN st
    ELSE RemapIsland(mesh,
            remap_corner(mesh, st, island_idx, island, placement, atlas_size,
                         island.faces[(k \div 3) + 1], k % 3),
            island_idx, island, placement, atlas_size, k + 1)

RECURSIVE RemapIslands(_, _, _, _, _, _)
RemapIslands(mesh, st, islands, placements, atlas_size, island_idx) ==
    IF island_idx >= Len(islands) THEN st
    ELSE LET placement == placement_of(placements, island_idx)
         IN  RemapIslands(mesh,
                IF placement = None THEN st
                ELSE RemapIsland(mesh, st, island_idx, islands[island_idx + 1],
                                 placement[1], atlas_size, 0),
                islands, placements, atlas_size, island_idx + 1)

remap_uvs_with_dedup(mesh, islands, placements, atlas_size) ==
    LET st == RemapIslands(mesh, RemapStart(mesh), islands, placements, atlas_size, 0)
    IN  [positions |-> st.positions, normals |-> st.normals, uvs |-> st.uvs,
         colors |-> st.colors, indices |-> st.indices,
         material_index |-> mesh.material_index]

\* ---------------------------------------------------------------------
\* repack_atlas as a state machine over textured meshes.

\* The vertices the meshes are cut from, numbered from 0: position and UV.
\* The UVs are not confined to [0,1].
AtlasVertices ==
    << [pos |-> P(0, 0, 0), uv |-> <<R(0), R(0)>>],
       [pos |-> P(1, 0, 0), uv |-> <<RatNorm(3, 4), R(0)>>],
       [pos |-> P(0, 1, 0), uv |-> <<R(0), RatNorm(3, 4)>>],
       [pos |-> P(1, 1, 0), uv |-> <<RatNorm(3, 4), RatNorm(3, 4)>>],
       [pos |-> P(2, 1, 0), uv |-> <<RatNorm(3, 2), RatNorm(3, 4)>>],
       [pos |-> P(1, 2, 0), uv |-> <<RatNorm(3, 4), RatNorm(3, 2)>>],
       [pos |-> P(2, 2, 0), uv |-> <<RatNorm(3, 2), RatNorm(3, 2)>>],
       [pos |-> P(3, 3, 0), uv |-> <<RatNorm(-1, 2), R(2)>>] >>

\* A vertex no face refers to.
OrphanVertex == [pos |-> P(9, 9, 9), uv |-> <<R(2), R(2)>>]

\* The faces: 1 and 2 share an edge, 3 touches 2 in one vertex, 4 shares an
\* edge with 3 and the same vertex with 2, 5 touches 1 and 4 in one vertex
\* each.
AtlasFaceCatalog ==
    << <<0, 1, 2>>, <<1, 3, 2>>, <<3, 4, 5>>, <<3, 5, 6>>, <<0, 6, 7>> >>

AtlasFaces == 3

\* The mesh of the catalogue faces fs, over the vertices they use (and an
\* unreferenced vertex at the end when orphan), with or without UVs.
AtlasMeshOf(fs, orphan, with_uvs, material) ==
    LET used == SortedSeq(UNION {SeqRange(AtlasFaceCatalog[fs[k]]) : k \in 1..Len(fs)})
        slot(id) == (CHOOSE i \in 1..Len(used) : used[i] = id) - 1
        verts == [i \in 1..Len(used) |-> AtlasVertices[used[i] + 1]]
                     \o (IF orphan THEN <<OrphanVertex>> ELSE <<>>)
    IN  [positions |-> [i \in 1..Len(verts) |-> verts[i].pos],
         normals |-> <<>>,
         uvs |-> IF with_uvs THEN [i \in 1..Len(verts) |-> verts[i].uv] ELSE <<>>,
         colors |-> <<>>,
         indices |-> [k \in 1..(3 * Len(fs)) |->
                         slot(AtlasFaceCatalog[fs[((k - 1) \div 3) + 1]][((k - 1) % 3) + 1])],
         material_index |-> material]

AtlasFaceChoices ==
    {SortedSeq(S) : S \in {T \in SUBSET (1..Len(AtlasFaceCatalog)) : Cardinality(T) <= AtlasFaces}}

\* The decoded texture's dimensions, and config.max_size.
TextureSizes == {<<64, 64>>, <<16384, 16384>>}
MaxSizes == {2048, 12288}

\* Textured inputs, and the inputs repack_atlas turns down: no UVs, no
\* material, no texture behind the material.
AtlasInputs ==
    {[mesh |-> AtlasMeshOf(fs, orphan, TRUE, Some(0)), texture |-> Some(t), max_size |-> ms] :
        fs \in AtlasFaceChoices, orphan \in BOOLEAN, t \in TextureSizes, ms \in MaxSizes}
    \cup {[mesh |-> AtlasMeshOf(<<1>>, FALSE, uv, mat), texture |-> t, max_size |-> 2048] :
            uv \in BOOLEAN, mat \in {None, Some(0)}, t \in {None, Some(<<64, 64>>)}}

AtlasInit ==
    /\ at_in \in AtlasInputs
    /\ at_pc = "start"
    /\ at_islands = <<>> /\ at_sized = <<>>
    /\ at_w = 0 /\ at_h = 0 /\ at_placements = <<>> /\ at_out = None
    /\ TileIdle /\ OctIdle /\ ClipIdle /\ MergeIdle /\ LodIdle /\ UriIdle /\ CallIdle /\ CompactIdle /\ AuxIdle

Textured(in) ==
    has_uvs(in.mesh) /\ in.mesh.material_index /= None /\ in.texture /= None

\* The early returns of repack_atlas before island detection.
AtlasReject ==
    /\ at_pc = "start"
    /\ ~Textured(at_in)
    /\ at_pc' = "done"
    /\ at_out' = None
    /\ UNCHANGED <<at_in, at_islands, at_sized, at_w, at_h, at_placements>>
    /\ UNCHANGED <<tileVars, octVars, clipVars, mergeVars, lodVars, uriVars, callVars, compactVars, auxVars>>

\* Steps 1 and 2, and the return when there is no island.
AtlasNoIslands ==
    /\ at_pc = "start"
    /\ Textured(at_in)
    /\ <<>> \in detect_islands(at_in.mesh, build_edge_adjacency(at_in.mesh))
    /\ at_pc' = "done"
    /\ at_out' = None
    /\ UNCHANGED <<at_in, at_islands, at_sized, at_w, at_h, at_placements>>
    /\ UNCHANGED <<tileVars, octVars, clipVars, mergeVars, lodVars, uriVars, callVars, compactVars, auxVars>>

\* Steps 1 to 3, and guillotine_pack up to its loop.
AtlasDetect ==
    /\ at_pc = "start"
    /\ Textured(at_in)
    /\ \E islands \in detect_islands(at_in.mesh, build_edge_adjacency(at_in.mesh)) :
         /\ islands /= <<>>
         /\ LET sized == sized_islands(islands, at_in.texture[1][1], at_in.texture[1][2],
                                       at_in.max_size)
            IN  /\ at_islands' = islands
                /\ at_sized' = sized
                /\ at_w' = initial_atlas_w(sized)
                /\ at_h' = initial_atlas_h(sized)
    /\ at_pc' = "pack"
    /\ UNCHANGED <<at_in, at_placements, at_out>>
    /\ UNCHANGED <<tileVars, octVars, clipVars, mergeVars, lodVars, uriVars, callVars, compactVars, auxVars>>

Packed == try_pack(pack_order(at_sized), at_sized, at_w, at_h)

\* try_pack succeeds: guillotine_pack returns its placements.
AtlasPack ==
    /\ at_pc = "pack"
    /\ Packed /= None
    /\ at_placements' = Packed[1]
    /\ at_pc' = "remap"
    /\ UNCHANGED <<at_in, at_islands, at_sized, at_w, at_h, at_out>>
    /\ UNCHANGED <<tileVars, octVars, clipVars, mergeVars, lodVars, uriVars, callVars, compactVars, auxVars>>

\* try_pack fails and the grown atlas is within the safety limit.
AtlasGrow ==
    /\ at_pc = "pack"
    /\ Packed = None
    /\ grown_w(at_w, at_h) <= SafetyLimit /\ grown_h(at_w, at_h) <= SafetyLimit
    /\ at_w' = grown_w(at_w, at_h)
    /\ at_h' = grown_h(at_w, at_h)
    /\ UNCHANGED <<at_in, at_pc, at_islands, at_sized, at_placements, at_out>>
    /\ UNCHANGED <<tileVars, octVars, clipVars, mergeVars, lodVars, uriVars, callVars, compactVars, auxVars>>

\* try_pack fails and the grown atlas is beyond the safety limit: the result
\* is that of one more try_pack, or no placement at all when it fails too.
AtlasForce ==
    /\ at_pc = "pack"
    /\ Packed = None
    /\ grown_w(at_w, at_h) > SafetyLimit \/ grown_h(at_w, at_h) > SafetyLimit
    /\ at_w' = grown_w(at_w, at_h)
    /\ at_h' = grown_h(at_w, at_h)
    /\ at_placements' = unwrap_or_default(try_pack(pack_order(at_sized), at_sized,
                                                   grown_w(at_w, at_h), grown_h(at_w, at_h)))
    /\ at_pc' = "remap"
    /\ UNCHANGED <<at_in, at_islands, at_sized, at_out>>
    /\ UNCHANGED <<tileVars, octVars, clipVars, mergeVars, lodVars, uriVars, callVars, compactVars, auxVars>>

\* Steps 4 (compute_atlas_size) and 5; compositing and compression leave
\* the mesh alone.
AtlasRemap ==
    /\ at_pc = "remap"
    /\ at_out' = Some(remap_uvs_with_dedup(at_in.mesh, at_islands, at_placements,
                                           compute_atlas_size(at_placements)))
    /\ at_pc' = "done"
    /\ UNCHANGED <<at_in, at_islands, at_sized, at_w, at_h, at_placements>>
    /\ UNCHANGED <<tileVars, octVars, clipVars, mergeVars, lodVars, uriVars, callVars, compactVars, auxVars>>

AtlasNext ==
    \/ AtlasReject
    \/ AtlasNoIslands
    \/ AtlasDetect
    \/ AtlasPack
    \/ AtlasGrow
    \/ AtlasForce
    \/ AtlasRemap

SpecAtlas == AtlasInit /\ [][AtlasNext]_vars

\* guillotine_pack has returned.
PackReturned == at_pc \in {"remap", "done"} /\ at_sized /= <<>>

\* C12: when guillotine_pack returns, every island has exactly one placement.
C12_OnePlacementPerIsland ==
    PackReturned =>
        /\ Len(at_placements) = Len(at_sized)
        /\ \A i \in 1..Len(at_sized) :
             Cardinality({k \in 1..Len(at_placements) :
                             at_placements[k].island_idx = at_sized[i][1]}) = 1

InUnit(r) == RLe(RZero, r) /\ RLe(r, R(1))

\* C13: when repack_atlas returns a result, every UV pair of the output mesh
\* lies in [0,1] on both axes.
C13_UvsInUnitSquare ==
    at_out /= None =>
        \A i \in 1..Len(at_out[1].uvs) :
            InUnit(at_out[1].uvs[i][1]) /\ InUnit(at_out[1].uvs[i][2])

\* The islands (from 0) with a face that has a corner at vertex vi.
IslandsAt(vi) ==
    {i \in 0..(Len(at_islands) - 1) :
        \E k \in 1..Len(at_islands[i + 1].faces), v \in 0..2 :
            Corner(at_in.mesh, at_islands[i + 1].faces[k], v) = vi}

\* The output vertices at the position of the input vertex vi; the input
\* meshes have no two vertices at one position.
CopiesOf(vi) ==
    {o \in 1..Len(at_out[1].positions) :
        at_out[1].positions[o] = at_in.mesh.positions[vi + 1]}

\* r * atlas_size, the pixel coordinate of an atlas coordinate.
PixelOf(r, atlas_size) ==
    LET g == Gcd(r[2], atlas_size)
    IN  RatNorm(r[1] * (atlas_size \div g), r[2] \div g)

\* uv lies in the inner rectangle of the placement.
InInnerRect(uv, pl, atlas_size) ==
    /\ RLe(R(pl.x + pl.padding), PixelOf(uv[1], atlas_size))
    /\ RLe(PixelOf(uv[1], atlas_size), R(pl.x + pl.padding + pl.inner_w))
    /\ RLe(R(pl.y + pl.padding), PixelOf(uv[2], atlas_size))
    /\ RLe(PixelOf(uv[2], atlas_size), R(pl.y + pl.padding + pl.inner_h))

\* C14: in the output of remap_uvs_with_dedup a vertex referenced by faces
\* of k islands appears as exactly k vertices; every face corner refers to a
\* vertex at its old position whose UV lies in the inner rectangle of the
\* placement of the corner's island; the index count is unchanged.
C14_OneCopyPerIsland ==
    at_out /= None =>
        /\ Len(at_out[1].indices) = Len(at_in.mesh.indices)
        /\ \A vi \in 0..(vertex_count(at_in.mesh) - 1) :
             IslandsAt(vi) /= {} =>
                 Cardinality(CopiesOf(vi)) = Cardinality(IslandsAt(vi))
        /\ \A i \in 0..(Len(at_islands) - 1) :
             \A k \in 1..Len(at_islands[i + 1].faces), v \in 0..2 :
                LET face == at_islands[i + 1].faces[k]
                    o == Corner(at_out[1], face, v)
                    pl == placement_of(at_placements, i)
                IN  /\ at_out[1].positions[o + 1] =
                           at_in.mesh.positions[Corner(at_in.mesh, face, v) + 1]
                    /\ pl /= None
                    /\ InInnerRect(at_out[1].uvs[o + 1], pl[1],
                                   compute_atlas_size(at_placements))

\* ---------------------------------------------------------------------
\* tiling/lod.rs: generate_lod_chain.  A mesh is modelled by its triangle
\* count.  simplify_mesh hands the mesh to meshopt::simplify, whose output
\* is not determined by this repository: any triangle count up to the
\* input's and any achieved error up to target_error (0.01) can come back.

MIN_TRIANGLE_COUNT == 1000
LodLevels == 4

TriangleCounts == {0, 600, 1000, 3800, 4000, 16000}
AchievedErrors == {RZero, RatNorm(1, 100)}

\* A box reduced to one point: its diagonal is 0.
PointBounds == [min |-> P(4, 4, 4), max |-> P(4, 4, 4)]

simplify_mesh(triangles) ==
    IF triangles = 0 THEN {[triangles |-> 0, achieved_error |-> RZero]}
    ELSE {[triangles |-> t, achieved_error |-> e] :
             t \in {c \in TriangleCounts : c <= triangles}, e \in AchievedErrors}

\* 0.25^n
RECURSIVE QuarterPow(_)
QuarterPow(n) == IF n = 0 THEN R(1) ELSE RMul(RatNorm(1, 4), QuarterPow(n - 1))

min_heuristic_error(diag, n) == RMul(RMul(diag, RSub(R(1), QuarterPow(n))), RHalf)

LodLevel(level, triangles, geometric_error) ==
    [level |-> level, triangles |-> triangles, geometric_error |-> geometric_error]

LodInit ==
    /\ lod_in \in [triangles : TriangleCounts, bounds : {RootBounds, PointBounds},
                   max_levels : 0..LodLevels]
    /\ lod_pc = "start"
    /\ lod_levels = <<>> /\ lod_n = 0 /\ lod_prev = 0 /\ lod_cum = RZero
    /\ TileIdle /\ OctIdle /\ ClipIdle /\ MergeIdle /\ AtlasIdle
    /\ UriIdle /\ CallIdle /\ CompactIdle /\ AuxIdle

\* LOD 0 and the early return.
LodStart ==
    /\ lod_pc = "start"
    /\ lod_levels' = <<LodLevel(0, lod_in.triangles, RZero)>>
    /\ IF lod_in.triangles = 0 \/ lod_in.max_levels <= 1
       THEN lod_pc' = "done" /\ UNCHANGED <<lod_n, lod_prev, lod_cum>>
       ELSE /\ lod_pc' = "loop"
            /\ lod_n' = 1
            /\ lod_prev' = lod_in.triangles
            /\ lod_cum' = RZero
    /\ UNCHANGED <<lod_in, tileVars, octVars, clipVars, mergeVars, atlasVars, uriVars, callVars, compactVars, auxVars>>

\* One iteration of `for n in 1..max_levels` on the outcome sim of
\* simplify_mesh.
LodIterate(sim) ==
    LET stalled == sim.triangles = 0 \/ sim.triangles >= (lod_prev * 95) \div 100
        cumulative_error == RAdd(lod_cum, RMul(sim.achieved_error, diagonal(lod_in.bounds)))
        heuristic == min_heuristic_error(diagonal(lod_in.bounds), lod_n)
        geometric_error == RMax(cumulative_error, heuristic)
    IN  IF stalled
        THEN lod_pc' = "done" /\ UNCHANGED <<lod_levels, lod_n, lod_prev, lod_cum>>
        ELSE /\ lod_levels' = Append(lod_levels,
                                     LodLevel(lod_n, sim.triangles, geometric_error))
             /\ lod_cum' = cumulative_error
             /\ IF sim.triangles < MIN_TRIANGLE_COUNT \/ lod_n + 1 >= lod_in.max_levels
                THEN lod_pc' = "done" /\ UNCHANGED <<lod_n, lod_prev>>
                ELSE /\ lod_pc' = "loop"
                     /\ lod_n' = lod_n + 1
                     /\ lod_prev' = sim.triangles

LodStep ==
    /\ lod_pc = "loop"
    /\ \E sim \in simplify_mesh(lod_levels[lod_n].triangles) : LodIterate(sim)
    /\ UNCHANGED <<lod_in, tileVars, octVars, clipVars, mergeVars, atlasVars, uriVars, callVars, compactVars, auxVars>>

LodNext == LodStart \/ LodStep

SpecLod == LodInit /\ [][LodNext]_vars

\* C15: in the chain of generate_lod_chain LOD 0 is the input mesh at error
\* 0 and every level's geometric_error is strictly greater than that of the
\* level before it.
C15_ErrorIncreasing ==
    lod_levels /= <<>> =>
        /\ lod_levels[1] = LodLevel(0, lod_in.triangles, RZero)
        /\ \A i \in 2..Len(lod_levels) :
             RLt(lod_levels[i - 1].geometric_error, lod_levels[i].geometric_error)

\* ---------------------------------------------------------------------
\* The leaf rule of build_octree.

\* No call is deeper than max_depth.
DepthBounded ==
    \A p \in DOMAIN oct_tasks :
        oct_tasks[p].depth = Len(p) /\ Len(p) <= oct_input.max_depth

\* What a step does to the call at path p, whose mesh and depth are those
\* it was spawned with: it returns a leaf holding the whole mesh when the
\* mesh is small or the call is deep, it spawns its eight items otherwise,
\* and a call that waited returns an internal node without a mesh.
LeafRuleStep ==
    \A p \in DOMAIN oct_tasks :
        LET t == oct_tasks[p]
            small == triangle_count(t.mesh) <= oct_input.max_triangles
            deep == t.depth >= oct_input.max_depth
        IN  /\ (t.state = "ready" /\ oct_tasks'[p].state /= "ready") =>
                   IF small \/ deep
                   THEN /\ oct_tasks'[p].state = "done"
                        /\ oct_tasks'[p].result =
                               Some([bounds |-> t.bounds, mesh |-> t.mesh,
                                     children |-> NoChildren])
                   ELSE /\ oct_tasks'[p].state = "waiting"
                        /\ ChildPaths(p) \subseteq DOMAIN oct_tasks'
                        /\ \E q \in ChildPaths(p) : oct_tasks'[q].state = "ready"
            /\ (t.state = "waiting" /\ oct_tasks'[p].state /= "waiting") =>
                   /\ oct_tasks'[p].state = "done"
                   /\ oct_tasks'[p].result /= None
                   /\ ~is_leaf(oct_tasks'[p].result[1])
                   /\ oct_tasks'[p].result[1].mesh = EmptyMesh

\* The steps a call that is ready at depth d can still give rise to: its
\* own return, or its split, its join and the steps of its eight items.
RECURSIVE StepsLeft(_)
StepsLeft(d) ==
    IF d >= oct_input.max_depth THEN 1 ELSE 2 + 8 * StepsLeft(d + 1)

RECURSIVE SumOver(_, _)
SumOver(S, f) ==
    IF S = {} THEN 0
    ELSE LET x == CHOOSE y \in S : TRUE IN f[x] + SumOver(S \ {x}, f)

\* An upper bound on the steps the construction can still take.
Variant(tasks) ==
    SumOver(DOMAIN tasks,
            [p \in DOMAIN tasks |->
                IF tasks[p].state = "ready" THEN StepsLeft(tasks[p].depth)
                ELSE IF tasks[p].state = "waiting" THEN 1 ELSE 0])

\* Some call can run: it is ready, or it waits and all its items are done.
CanStep ==
    \E p \in DOMAIN oct_tasks :
        \/ oct_tasks[p].state = "ready"
        \/ /\ oct_tasks[p].state = "waiting"
           /\ \A q \in ChildPaths(p) : oct_tasks[q].state = "done"

\* C16: a call of build_octree_recursive returns a leaf holding its whole
\* sub-mesh exactly when the sub-mesh has at most max_triangles triangles or
\* the depth is at least max_depth, and an internal node over its octants
\* otherwise; no call is deeper than max_depth; the construction ends:
\* every step lowers a natural-valued variant, and until the root call has
\* returned some call can run.
C16_LeafRuleAndTermination ==
    /\ [](DepthBounded /\ (~OctDone => CanStep))
    /\ [][LeafRuleStep /\ Variant(oct_tasks') < Variant(oct_tasks)]_vars

\* The construction has ended with a root that was subdivided and has a leaf
\* child with more than max_triangles triangles, stopped by max_depth.
C16_Witness ==
    /\ OctDone
    /\ ~is_leaf(oct_tasks[<<>>].result[1])
    /\ \E i \in 0..7 :
         /\ Append(<<>>, i) \in DOMAIN oct_tasks
         /\ oct_tasks[<<i>>].result /= None
         /\ is_leaf(oct_tasks[<<i>>].result[1])
         /\ triangle_count(oct_tasks[<<i>>].result[1].mesh) > oct_input.max_triangles

\* C17: every tile without children in the tree of build_tileset has
\* geometric_error 0, on the single-level and on the multi-level path.
C17_LeafErrorZero ==
    Built => \A t \in TilesAt(root[1], 0) :
                ~IsInternal(t.tile) => t.tile.geometric_error = RZero

\* A multi-level tree: the root carries a positive error, and an octree leaf
\* two or more tiers below it carries error 0 under a parent with a
\* positive error.
C17_Witness ==
    /\ Built
    /\ LodDepth >= 1
    /\ RLt(RZero, root[1].geometric_error)
    /\ \E e \in Edges(root[1]) :
          /\ ~IsInternal(e.child)
          /\ e.child.geometric_error = RZero
          /\ RLt(RZero, e.parent.geometric_error)
          /\ e.parent /= root[1]

\* A single-level tree whose root was subdivided: its leaves carry error 0.
C17_SingleLevelReached ==
    /\ Built
    /\ LodDepth = 0
    /\ IsInternal(root[1])

\* The input is one chain of the empty mesh alone (generate_lod_chain stops
\* at LOD 0 on an empty mesh).
EmptyInput ==
    \A c \in 1..Len(lod_chains) :
        Len(lod_chains[c]) = 1 /\ is_empty(lod_chains[c][1].mesh)

\* C18: for an empty input mesh and any limits build_tileset yields a root
\* tile without content and children and with error 0; write_tileset then
\* writes no GLB, returns 0, and writes a manifest with asset.version "1.1"
\* and that root tile.
C18_EmptyMesh ==
    EmptyInput =>
        /\ Built =>
              /\ root[1].address = RootAddress
              /\ root[1].content = None
              /\ root[1].children = <<>>
              /\ root[1].geometric_error = RZero
        /\ pc \in {"writing", "json", "done"} => pairs = <<>> /\ files = {}
        /\ pc = "done" =>
              /\ result = Ok(0)
              /\ manifest /= None
              /\ manifest[1].asset.version = "1.1"
              /\ manifest[1].root.content = None
              /\ manifest[1].root.children = None
              /\ manifest[1].root.geometricError = RZero
              /\ manifest[1].root.boundingVolume.box = bounding_volume_box(RootBounds)

\* The pipeline has finished on an empty mesh with limits that would allow
\* a subdivision.
C18_Witness ==
    /\ EmptyInput
    /\ pc = "done"
    /\ config.max_depth > 0
    /\ manifest /= None
    /\ result = Ok(0)

(***************************************************************************)
(* tiling/tileset_writer.rs: address_to_uri on strings                     *)
(*                                                                         *)
(* A string is the sequence of its characters.  The tile tree above keeps  *)
(* an address as the list of its '_'-separated parts; address_to_uri       *)
(* itself takes any &str, splits it at every '_' and joins the prefixes    *)
(* with '/'.                                                               *)
(***************************************************************************)
MaxAddrLen == 4
UriChars == {"0", "1", "_", "/"}
RootStr == <<"r", "o", "o", "t">>
TilesPrefix == <<"t", "i", "l", "e", "s", "/">>
RootGlb == <<"r", "o", "o", "t", ".", "g", "l", "b">>
TileGlb == <<"/", "t", "i", "l", "e", ".", "g", "l", "b">>

\* The addresses of the unit test address_to_uri_mapping, besides "root".
TestAddresses == {<<"0">>, <<"0", "_", "3">>, <<"0", "_", "3", "_", "1">>}

\* The addresses address_to_uri is applied to: "root", those of the unit test
\* and every string of at most MaxAddrLen characters over UriChars, the empty
\* string included.
UriAddresses ==
    {RootStr} \cup TestAddresses \cup UNION {[1..k -> UriChars] : k \in 0..MaxAddrLen}

\* str::split(sep): the parts between the separators, one more than there
\* are separators; a part may be empty.
RECURSIVE split(_, _)
split(s, sep) ==
    IF \E i \in 1..Len(s) : s[i] = sep
    THEN LET i == CHOOSE i \in 1..Len(s) :
                      s[i] = sep /\ \A j \in 1..(i - 1) : s[j] /= sep
         IN  <<SubSeq(s, 1, i - 1)>> \o split(SubSeq(s, i + 1, Len(s)), sep)
    ELSE <<s>>

\* [String]::join(sep).
RECURSIVE join(_, _)
join(segs, sep) ==
    IF Len(segs) = 0 THEN <<>>
    ELSE IF Len(segs) = 1 THEN segs[1]
    ELSE segs[1] \o <<sep>> \o join(Tail(segs), sep)

\* A loop that pushes every part as it is, not the accumulated prefix.
RECURSIVE path_segments_PartsOnly(_, _, _)
path_segments_PartsOnly(parts, i, accum) ==
    IF i > Len(parts) THEN <<>>
    ELSE <<parts[i]>> \o path_segments_PartsOnly(parts, i + 1, parts[i])

\* The loop over parts: accum grows by the part (after a '_' from the second
\* part on) and a copy of it is pushed; i counts from 1, accum is the value
\* before iteration i.
RECURSIVE path_segments(_, _, _)
path_segments(parts, i, accum) ==
    IF i > Len(parts) THEN <<>>
    ELSE LET next_accum == IF i = 1 THEN accum \o parts[i]
                           ELSE accum \o <<"_">> \o parts[i]
         IN  <<next_accum>> \o path_segments(parts, i + 1, next_accum)

address_to_uri_string(address) ==
    IF address = RootStr THEN TilesPrefix \o RootGlb
    ELSE LET parts == split(address, "_")
             dir_path == join(path_segments(parts, 1, <<>>), "/")
         IN  TilesPrefix \o dir_path \o TileGlb

UriInit ==
    /\ uri_addr \in UriAddresses
    /\ uri_pc = "start"
    /\ uri_out = None
    /\ TileIdle /\ OctIdle /\ ClipIdle /\ MergeIdle /\ AtlasIdle /\ LodIdle
    /\ CallIdle /\ CompactIdle /\ AuxIdle

\* The early return for "root".
UriRoot ==
    /\ uri_pc = "start"
    /\ uri_addr = RootStr
    /\ uri_out' = Some(address_to_uri_string(uri_addr))
    /\ uri_pc' = "done"
    /\ UNCHANGED <<uri_addr, tileVars, octVars, clipVars, mergeVars, atlasVars, lodVars,
                   callVars, compactVars, auxVars>>

\* The hierarchical path of any other address.
UriTile ==
    /\ uri_pc = "start"
    /\ uri_addr /= RootStr
    /\ uri_out' = Some(address_to_uri_string(uri_addr))
    /\ uri_pc' = "done"
    /\ UNCHANGED <<uri_addr, tileVars, octVars, clipVars, mergeVars, atlasVars, lodVars,
                   callVars, compactVars, auxVars>>

UriNext == UriRoot \/ UriTile

SpecUri == UriInit /\ [][UriNext]_vars

\* The URI of every address.
UriTable == [a \in UriAddresses |-> address_to_uri_string(a)]

\* The prefixes of an address that end before a '_' or at its end, shortest
\* first.
Prefixes(address) ==
    LET cuts == {p \in 1..Len(address) : address[p] = "_"} \cup {Len(address) + 1}
        CutAt(i) == CHOOSE c \in cuts : Cardinality({d \in cuts : d < c}) = i - 1
    IN  [i \in 1..Cardinality(cuts) |-> SubSeq(address, 1, CutAt(i) - 1)]

\* An address of the tile tree: "root", or digits separated by single '_'.
TreeAddress(address) ==
    \/ address = RootStr
    \/ /\ address /= <<>>
       /\ \A p \in 1..Len(address) :
            IF p % 2 = 1 THEN address[p] \in {ToString(d) : d \in 0..7}
            ELSE address[p] = "_"
       /\ Len(address) % 2 = 1

\* The same address as the list of its parts, as the tile tree keeps it.
PartList(address) ==
    IF address = RootStr THEN RootAddress
    ELSE [i \in 1..((Len(address) + 1) \div 2) |-> address[2 * i - 1]]

\* The string of a URI record of the tile tree.
UriString(u) ==
    IF u.file = "root.glb" THEN TilesPrefix \o RootGlb
    ELSE TilesPrefix
         \o join([i \in 1..Len(u.dirs) |->
                     join([j \in 1..Len(u.dirs[i]) |-> <<u.dirs[i][j]>>], "_")], "/")
         \o TileGlb

\* C19: address_to_uri maps "root" to tiles/root.glb and any other address
\* s1_s2_..._sk to tiles/s1/s1_s2/.../s1_s2_..._sk/tile.glb, one directory
\* per prefix of the address; no other address yields the same URI, and the
\* URI the tile tree records for an address is this string.  (The function
\* reads nothing but its argument, so the URI is a function of the address.)
C19_AddressToUri ==
    uri_pc = "done" =>
        /\ uri_out /= None
        /\ uri_addr = RootStr => uri_out[1] = TilesPrefix \o RootGlb
        /\ uri_addr /= RootStr =>
              /\ uri_out[1] = TilesPrefix \o join(Prefixes(uri_addr), "/") \o TileGlb
              /\ Len(split(uri_addr, "_")) = Len(Prefixes(uri_addr))
        /\ \A b \in UriAddresses : UriTable[b] = uri_out[1] => b = uri_addr
        /\ TreeAddress(uri_addr) =>
              uri_out[1] = UriString(address_to_uri(PartList(uri_addr)))

\* address_to_uri("0_3_1") has returned "tiles/0/0_3/0_3_1/tile.glb".
C19_Witness ==
    /\ uri_pc = "done"
    /\ uri_addr = <<"0", "_", "3", "_", "1">>
    /\ uri_out = Some(<<"t", "i", "l", "e", "s", "/", "0", "/", "0", "_", "3", "/",
                        "0", "_", "3", "_", "1", "/", "t", "i", "l", "e", ".", "g",
                        "l", "b">>)

(***************************************************************************)
(* write_tileset's transform argument                                      *)
(***************************************************************************)
\* The transform of the unit test tileset_json_has_transform: the identity
\* with the translation (100, 200, 300) at elements 12..14 (13..15 here).
TestTransform ==
    [i \in 1..16 |->
        IF i = 13 THEN R(100) ELSE IF i = 14 THEN R(200) ELSE IF i = 15 THEN R(300)
        ELSE IdentityTransform[i]]

\* Sixteen different values, to tell every position from every other.
DistinctTransform == [i \in 1..16 |-> R(i)]

\* build_root_transform of an ECEF origin that is not finite, as
\* geodetic_to_ecef returns for a georeference whose elevation is infinite.
NonFiniteTransform ==
    [i \in 1..16 |-> IF i \in {13, 14, 15} THEN Infinity ELSE IdentityTransform[i]]

Transforms == {IdentityTransform, TestTransform, DistinctTransform, NonFiniteTransform}

\* The pipeline on the inputs of SpecFaults, called with any of Transforms.
ManifestInit ==
    /\ TileInit
    /\ lod_chains \in ChainsOf({MeshOf(S) : S \in SUBSET (1..FaultMeshTris)}, FaultLevels)
    /\ config \in ConfigsOf(FaultDepth)
    /\ transform \in Transforms
    /\ OctIdle /\ ClipIdle /\ MergeIdle /\ AtlasIdle /\ LodIdle /\ UriIdle
    /\ CompactIdle /\ AuxIdle

SpecManifest == ManifestInit /\ [][TileNext]_vars

\* Every tile of a manifest with its depth below the root: records
\* [tile, depth].
RECURSIVE JsonTilesAt(_, _)
JsonTilesAt(tile, depth) ==
    {[tile |-> tile, depth |-> depth]}
    \cup (IF tile.children = None THEN {}
          ELSE UNION {JsonTilesAt(tile.children[1][k], depth + 1) :
                         k \in 1..Len(tile.children[1])})

ManifestWritten == pc = "done" /\ manifest /= None

\* C20: the manifest written by write_tileset carries on its root tile
\* exactly the sixteen values of the caller's transform, in the same order,
\* no other tile carries a transform, and the top-level geometricError is the
\* root tile's.
C20_ManifestTransform ==
    ManifestWritten =>
        /\ manifest[1].root.transform = Some(transform)
        /\ \A t \in JsonTilesAt(manifest[1].root, 0) :
             t.depth > 0 => t.tile.transform = None
        /\ manifest[1].geometricError = manifest[1].root.geometricError

\* The same for the calls whose transform holds finite values only.
C20_FiniteTransform ==
    (\A i \in 1..16 : transform[i][2] /= 0) => C20_ManifestTransform

\* A manifest with tiles below the root was written for the test's transform.
C20_TreeWritten ==
    /\ ManifestWritten
    /\ transform = TestTransform
    /\ manifest[1].root.children /= None

(***************************************************************************)
(* split_mesh_clipping on meshes with any attributes, a material and       *)
(* degenerate triangles                                                    *)
(***************************************************************************)
\* ClipCatalog, then triangles that collapse: two vertices of their own at
\* one position, and a triangle that touches octant 7 at one corner only.
SplitCatalog ==
    ClipCatalog \o
    << <<P(3, 3, 3), P(3, 3, 3), P(4, 3, 3)>>,      \* inside octant 7, two equal positions
       <<P(0, 0, 0), P(0, 0, 0), P(0, 0, 0)>>,      \* inside octant 0, one position
       <<P(2, 2, 2), P(1, 2, 1), P(2, 1, 1)>> >>    \* octant 0 but for the corner (2,2,2)

\* The bound on the triangles of a split mesh.
SplitTris == 2

SplitChoices ==
    {SortedSeq(S) : S \in {T \in SUBSET (1..Len(SplitCatalog)) :
                              Cardinality(T) \in 1..SplitTris}}

\* The attributes a mesh carries: normals, UVs, colours.
AttrChoices ==
    {[n |-> FALSE, u |-> FALSE, c |-> FALSE], [n |-> TRUE, u |-> FALSE, c |-> FALSE],
     [n |-> FALSE, u |-> TRUE, c |-> TRUE], [n |-> TRUE, u |-> TRUE, c |-> TRUE]}

\* The mesh of the catalogue triangles ts, three vertices of its own per
\* triangle, with the attributes of at and the material index material.
SplitMeshOf(ts, at, material) ==
    LET n == 3 * Len(ts)
        tri(v) == ((v - 1) \div 3) + 1
        slot(v) == ((v - 1) % 3) + 1
    IN  [positions |-> [v \in 1..n |-> SplitCatalog[ts[tri(v)]][slot(v)]],
         normals |-> IF at.n THEN [v \in 1..n |-> P(0, 0, 1)] ELSE <<>>,
         uvs |-> IF at.u THEN [v \in 1..n |-> <<RatNorm(tri(v), 4), RatNorm(slot(v), 4)>>]
                 ELSE <<>>,
         colors |-> IF at.c THEN [v \in 1..n |-> <<RatNorm(slot(v), 4), R(1), R(1), R(1)>>]
                    ELSE <<>>,
         indices |-> [k \in 1..n |-> k - 1],
         material_index |-> material]

SplitMeshes ==
    {SplitMeshOf(ts, at, material) :
        ts \in SplitChoices, at \in AttrChoices, material \in {None, Some(1)}}

SplitInit ==
    /\ clip_mesh \in SplitMeshes
    /\ clip_k = 0
    /\ clip_builders = InitialBuilders(clip_mesh)
    /\ clip_last = [oct1 \in 1..8 |-> <<>>]
    /\ clip_out = None
    /\ TileIdle /\ OctIdle /\ MergeIdle /\ AtlasIdle /\ LodIdle /\ UriIdle /\ CallIdle /\ CompactIdle /\ AuxIdle

SpecSplit == SplitInit /\ [][ClipNext]_vars

\* Every entry of a per-vertex attribute has the stride's length.
StrideOk(attr, stride) == \A v \in 1..Len(attr) : Len(attr[v]) = stride

\* An attribute of an output: absent, or one entry per vertex.
AttrOk(attr, stride, out) ==
    /\ attr = <<>> \/ Len(attr) = vertex_count(out)
    /\ StrideOk(attr, stride)

\* C21: each of the eight outputs of split_mesh_clipping is a well-formed
\* mesh: its index count is divisible by 3, every index is below its vertex
\* count, each of normals, UVs and colours is present in a non-empty output
\* iff it is present in the input and then has one entry per vertex at its
\* stride, and its material index is the input's.
C21_OutputsWellFormed ==
    clip_out /= None =>
        \A oct1 \in 1..8 :
            LET out == clip_out[1][oct1]
            IN  /\ Len(out.indices) % 3 = 0
                /\ \A i \in 1..Len(out.indices) :
                     out.indices[i] >= 0 /\ out.indices[i] < vertex_count(out)
                /\ StrideOk(out.positions, 3)
                /\ AttrOk(out.normals, 3, out)
                /\ AttrOk(out.uvs, 2, out)
                /\ AttrOk(out.colors, 4, out)
                /\ ~is_empty(out) =>
                     /\ has_normals(out) <=> has_normals(clip_mesh)
                     /\ has_uvs(out) <=> has_uvs(clip_mesh)
                     /\ has_colors(out) <=> has_colors(clip_mesh)
                /\ out.material_index = clip_mesh.material_index

\* A mesh with normals, without UVs and colours and with a material was
\* split; a triangle of it was clipped into two octants at least.
C21_Witness ==
    /\ clip_out /= None
    /\ has_normals(clip_mesh) /\ ~has_uvs(clip_mesh) /\ ~has_colors(clip_mesh)
    /\ clip_mesh.material_index = Some(1)
    /\ Cardinality({oct1 \in 1..8 : triangle_count(clip_out[1][oct1]) > 0}) >= 2
    /\ \E oct1 \in 1..8 :
         /\ triangle_count(clip_out[1][oct1]) > 0
         /\ has_normals(clip_out[1][oct1])

\* The three indices of every triangle of an index list differ pairwise.
NoCollapsedTriangle(indices) ==
    \A f \in 1..(Len(indices) \div 3) :
        /\ indices[3 * f - 2] /= indices[3 * f - 1]
        /\ indices[3 * f - 1] /= indices[3 * f]
        /\ indices[3 * f - 2] /= indices[3 * f]

\* The last iteration took the slow path.
LastWasSlow == clip_k > 0 /\ ~IsFastPath(clip_mesh, ClipBounds, clip_k)

\* C22: no output mesh of split_mesh_clipping (and no builder on the way)
\* contains a triangle with two equal vertex indices, and a clipped polygon
\* with fewer than three vertices contributes no triangle: the octant's
\* builder gets nothing from it, and fan_triangulate returns no triangle for
\* any polygon of 0, 1 or 2 vertices.
C22_NoDegenerateTriangles ==
    /\ \A oct1 \in 1..8 :
         /\ clip_builders /= <<>> => NoCollapsedTriangle(clip_builders[oct1].indices)
         /\ clip_out /= None => NoCollapsedTriangle(clip_out[1][oct1].indices)
    /\ LastWasSlow =>
         \A oct1 \in 1..8 :
             Len(ClippedPolygon(clip_mesh, ClipBounds, clip_k, oct1 - 1)) < 3
                 => clip_last[oct1] = <<>>
    /\ clip_k > 0 =>
         \A n \in 0..2 :
             fan_triangulate(SubSeq(TriVerts(clip_mesh, clip_k), 1, n)) = <<>>

\* The triangle with an edge on x = 2 was clipped: octant 1 got the polygon
\* of that edge alone, whose fan triangles have collapsed indices and were
\* dropped; octant 4 got the empty polygon; octant 0 got the triangle.
C22_Witness ==
    /\ LastWasSlow
    /\ clip_mesh.positions = <<P(2, 0, 1), P(2, 1, 1), P(1, 0, 1)>>
    /\ Len(ClippedPolygon(clip_mesh, ClipBounds, clip_k, 1)) >= 3
    /\ clip_last[2] = <<>>
    /\ ClippedPolygon(clip_mesh, ClipBounds, clip_k, 4) = <<>>
    /\ clip_last[5] = <<>>
    /\ Len(clip_last[1]) = 1

(***************************************************************************)
(* tiling/simplifier.rs: compact_mesh                                      *)
(***************************************************************************)
\* The bound on the length of compact_mesh's index list.
CompactLen == 3

\* A source of four vertices that differ in every attribute they carry; vertex
\* 3 is the unreferenced one of the unit test compact_mesh_removes_unreferenced.
CompactSource(at, material) ==
    [positions |-> <<P(0, 0, 0), P(1, 0, 0), P(0, 1, 0), P(9, 9, 9)>>,
     normals |-> IF at.n THEN [v \in 1..4 |-> P(0, v, 1)] ELSE <<>>,
     uvs |-> IF at.u THEN [v \in 1..4 |-> <<RatNorm(v, 4), RatNorm(1, 4)>>] ELSE <<>>,
     colors |-> IF at.c THEN [v \in 1..4 |-> <<RatNorm(v, 4), R(1), R(1), R(1)>>] ELSE <<>>,
     indices |-> <<0, 1, 2>>,
     material_index |-> material]

CompactSources == {CompactSource(at, Some(0)) : at \in AttrChoices}

\* Any list of at most CompactLen indices of the source's vertices.
CompactIndexLists == UNION {[1..n -> 0..3] : n \in 0..CompactLen}

\* remap is a table old index -> new index, None where the code has u32::MAX
\* (a vertex count of 2^32 - 1 is out of the reach of a Vec of positions).
CompactRemapStart(vertex_count0) ==
    [remap |-> [i \in 1..vertex_count0 |-> None], next_vertex |-> 0]

\* A scan that maps every index to itself.
scan_index_Identity(st, idx) ==
    IF st.remap[idx + 1] = None
    THEN [remap |-> [st.remap EXCEPT ![idx + 1] = Some(idx)],
          next_vertex |-> st.next_vertex + 1]
    ELSE st

\* The body of the loop over indices: a first-seen index gets next_vertex.
scan_index(st, idx) ==
    IF st.remap[idx + 1] = None
    THEN [remap |-> [st.remap EXCEPT ![idx + 1] = Some(st.next_vertex)],
          next_vertex |-> st.next_vertex + 1]
    ELSE st

\* The loop over remap that rebuilds one attribute array of new_vertex_count
\* entries: entry ni is written for every old index mapped to ni, in
\* ascending order of the old index, and keeps its zeros when there is none.
rebuild_attribute(remap, new_vertex_count, attr, stride) ==
    [ni1 \in 1..new_vertex_count |->
        LET olds == {o \in 1..Len(remap) : remap[o] = Some(ni1 - 1)}
        IN  IF olds = {} THEN ZeroVec(stride) ELSE attr[SetMax(olds)]]

\* The tail of compact_mesh, after the remap loop.
compact_build(indices, source, st) ==
    LET n == st.next_vertex
    IN  [positions |-> rebuild_attribute(st.remap, n, source.positions, 3),
         normals |-> IF has_normals(source)
                     THEN rebuild_attribute(st.remap, n, source.normals, 3) ELSE <<>>,
         uvs |-> IF has_uvs(source)
                 THEN rebuild_attribute(st.remap, n, source.uvs, 2) ELSE <<>>,
         colors |-> IF has_colors(source)
                    THEN rebuild_attribute(st.remap, n, source.colors, 4) ELSE <<>>,
         indices |-> [k \in 1..Len(indices) |-> st.remap[indices[k] + 1][1]],
         material_index |-> source.material_index]

CompactInit ==
    /\ cm_source \in CompactSources
    /\ cm_indices \in CompactIndexLists
    /\ cm_pc = "start"
    /\ cm_k = 0
    /\ cm_remap = <<>>
    /\ cm_out = None
    /\ TileIdle /\ OctIdle /\ ClipIdle /\ MergeIdle /\ AtlasIdle /\ LodIdle
    /\ UriIdle /\ CallIdle /\ AuxIdle

\* The early return for an empty index list.
CompactEmpty ==
    /\ cm_pc = "start"
    /\ cm_indices = <<>>
    /\ cm_out' = Some([EmptyMesh EXCEPT !.material_index = cm_source.material_index])
    /\ cm_pc' = "done"
    /\ UNCHANGED <<cm_source, cm_indices, cm_k, cm_remap>>
    /\ UNCHANGED <<tileVars, octVars, clipVars, mergeVars, atlasVars, lodVars, uriVars,
                   callVars, auxVars>>

CompactStart ==
    /\ cm_pc = "start"
    /\ cm_indices /= <<>>
    /\ cm_remap' = CompactRemapStart(vertex_count(cm_source))
    /\ cm_pc' = "scan"
    /\ UNCHANGED <<cm_source, cm_indices, cm_k, cm_out>>
    /\ UNCHANGED <<tileVars, octVars, clipVars, mergeVars, atlasVars, lodVars, uriVars,
                   callVars, auxVars>>

\* One iteration of `for &idx in &indices`.
CompactScan ==
    /\ cm_pc = "scan"
    /\ cm_k < Len(cm_indices)
    /\ cm_remap' = scan_index(cm_remap, cm_indices[cm_k + 1])
    /\ cm_k' = cm_k + 1
    /\ UNCHANGED <<cm_source, cm_indices, cm_pc, cm_out>>
    /\ UNCHANGED <<tileVars, octVars, clipVars, mergeVars, atlasVars, lodVars, uriVars,
                   callVars, auxVars>>

\* The indices are remapped and the attribute arrays rebuilt.
CompactBuild ==
    /\ cm_pc = "scan"
    /\ cm_k = Len(cm_indices)
    /\ cm_out' = Some(compact_build(cm_indices, cm_source, cm_remap))
    /\ cm_pc' = "done"
    /\ UNCHANGED <<cm_source, cm_indices, cm_k, cm_remap>>
    /\ UNCHANGED <<tileVars, octVars, clipVars, mergeVars, atlasVars, lodVars, uriVars,
                   callVars, auxVars>>

CompactNext == CompactEmpty \/ CompactStart \/ CompactScan \/ CompactBuild

SpecCompact == CompactInit /\ [][CompactNext]_vars

\* The distinct indices of a list.
DistinctIndices(indices) == {indices[k] : k \in 1..Len(indices)}

\* The number of distinct indices among the first k of a list.
SeenBefore(indices, k) == Cardinality({indices[j] : j \in 1..(k - 1)})

\* Vertex idx (0-based) of a mesh with the attributes the mesh carries.
MeshVertex(mesh, idx) ==
    [pos    |-> mesh.positions[idx + 1],
     normal |-> IF has_normals(mesh) THEN mesh.normals[idx + 1] ELSE <<>>,
     uv     |-> IF has_uvs(mesh) THEN mesh.uvs[idx + 1] ELSE <<>>,
     color  |-> IF has_colors(mesh) THEN mesh.colors[idx + 1] ELSE <<>>]

\* C23: compact_mesh returns a mesh whose vertex count is the number of
\* distinct indices of the list and whose new indices are assigned in
\* first-seen order; the vertex at every output index has the position,
\* normal, UV and colour of the source vertex at the input index it replaces;
\* every output vertex is referenced and every output index is below the new
\* vertex count.
C23_CompactMesh ==
    cm_out /= None =>
        LET out == cm_out[1]
        IN  /\ vertex_count(out) = Cardinality(DistinctIndices(cm_indices))
            /\ Len(out.indices) = Len(cm_indices)
            /\ \A k \in 1..Len(cm_indices) :
                 /\ out.indices[k] >= 0 /\ out.indices[k] < vertex_count(out)
                 /\ MeshVertex(out, out.indices[k]) = MeshVertex(cm_source, cm_indices[k])
                 /\ (\A j \in 1..(k - 1) : cm_indices[j] /= cm_indices[k])
                        => out.indices[k] = SeenBefore(cm_indices, k)
                 /\ \A j \in 1..(k - 1) :
                        cm_indices[j] = cm_indices[k] => out.indices[j] = out.indices[k]
            /\ \A v \in 0..(vertex_count(out) - 1) :
                 \E k \in 1..Len(out.indices) : out.indices[k] = v
            /\ has_normals(out) <=> (has_normals(cm_source) /\ cm_indices /= <<>>)
            /\ has_uvs(out) <=> (has_uvs(cm_source) /\ cm_indices /= <<>>)
            /\ has_colors(out) <=> (has_colors(cm_source) /\ cm_indices /= <<>>)

\* compact_mesh has returned for the list 2, 0, 2 over a source with all
\* attributes: two vertices, the indices 0, 1, 0.
C23_Witness ==
    /\ cm_out /= None
    /\ cm_indices = <<2, 0, 2>>
    /\ has_normals(cm_source) /\ has_uvs(cm_source) /\ has_colors(cm_source)
    /\ cm_out[1].indices = <<0, 1, 0>>
    /\ cm_out[1].positions = <<P(0, 1, 0), P(0, 0, 0)>>

\* ---------------------------------------------------------------------------
\* compress_texture (tiling/texture_compress.rs)
\* ---------------------------------------------------------------------------

\* The sides of the RGBA image handed to compress_texture run over 1..ImageSide.
ImageSide == 2

TextureFormats == {"WebP", "Ktx2", "Original"}
Qualities == {0, 85}

\* What the call depends on: the image's dimensions, TextureConfig's format
\* and quality, whether the build has the `ktx2` feature, and whether each
\* external encoder succeeds on this image.
TexInputs ==
    [width : 1..ImageSide, height : 1..ImageSide, format : TextureFormats,
     quality : Qualities, feature_ktx2 : BOOLEAN, basis_ok : BOOLEAN,
     webp_ok : BOOLEAN, png_ok : BOOLEAN]

\* A TextureData.  Its bytes are recorded by the encoder output they are:
\* "basis" for Compressor::basis_file(), "webp" and "png" for image.write_to
\* with ImageFormat::WebP and ImageFormat::Png, together with the dimensions
\* of the image that was encoded.
TextureData(container, mime, in) ==
    [data |-> [container |-> container, width |-> in.width, height |-> in.height],
     mime_type |-> mime, width |-> in.width, height |-> in.height]

\* The `.expect("PNG encoding failed")` of encode_png.
PngPanic == [panic |-> "PNG encoding failed"]

encode_png(in) ==
    IF in.png_ok THEN TextureData("png", "image/png", in) ELSE PngPanic

encode_webp(in) ==
    IF in.webp_ok THEN TextureData("webp", "image/webp", in) ELSE encode_png(in)

\* Result<TextureData, String>: None stands for Err.
encode_basis_universal(in) ==
    IF in.basis_ok THEN Some(TextureData("basis", "image/ktx2", in)) ELSE None

encode_ktx2(in) ==
    IF in.feature_ktx2
    THEN LET r == encode_basis_universal(in)
         IN  IF r /= None THEN r[1] ELSE encode_webp(in)
    ELSE encode_webp(in)

compress_texture(in) ==
    CASE in.format = "WebP" -> encode_webp(in)
      [] in.format = "Original" -> encode_png(in)
      [] in.format = "Ktx2" -> encode_ktx2(in)

TexInit ==
    /\ tx_in \in TexInputs
    /\ tx_out = None
    /\ CoreIdle /\ GlbIdle /\ TileGlbIdle /\ PolyIdle /\ PackIdle

CompressTexture ==
    /\ tx_out = None
    /\ tx_out' = Some(compress_texture(tx_in))
    /\ UNCHANGED <<tx_in, glbVars, tileGlbVars, polyVars, packVars, coreVars>>

SpecTexture == TexInit /\ [][CompressTexture]_vars

TexReturned == tx_out /= None /\ tx_out[1] /= PngPanic

\* The encoding a MIME type names.
EncodingNamed(mime) ==
    CASE mime = "image/ktx2" -> "ktx2"
      [] mime = "image/webp" -> "webp"
      [] mime = "image/png" -> "png"

Ktx2Unavailable == ~tx_in.feature_ktx2 \/ ~tx_in.basis_ok

\* The fallback order: a KTX2 request without a working encoder is answered
\* by the WebP encoder, a failing WebP encoder by the PNG encoder, and an
\* Original request by the PNG encoder.
TexFallbackOrder ==
    TexReturned =>
        LET out == tx_out[1]
            webp_or_png == IF tx_in.webp_ok THEN "webp" ELSE "png"
        IN  /\ (tx_in.format = "Ktx2" /\ Ktx2Unavailable) => out.data.container = webp_or_png
            /\ tx_in.format = "WebP" => out.data.container = webp_or_png
            /\ tx_in.format = "Original" => out.data.container = "png"

\* The returned dimensions are the image's, and the bytes encode that image.
TexDimensions ==
    TexReturned =>
        /\ tx_out[1].width = tx_in.width /\ tx_out[1].height = tx_in.height
        /\ tx_out[1].data.width = tx_in.width /\ tx_out[1].data.height = tx_in.height

\* The MIME type names the encoding of the returned bytes.
TexMimeNamesEncoding ==
    TexReturned => EncodingNamed(tx_out[1].mime_type) = tx_out[1].data.container

\* The same, for every call that fell back or was not asked for KTX2.
TexMimeAfterFallback ==
    (TexReturned /\ (tx_in.format /= "Ktx2" \/ Ktx2Unavailable)) => TexMimeNamesEncoding

\* C25: compress_texture falls back in the order KTX2, WebP, PNG; the
\* returned mime_type names the encoding of the returned bytes, and the
\* returned width and height are the input image's.
C25_CompressTexture ==
    /\ TexFallbackOrder
    /\ TexMimeNamesEncoding
    /\ TexDimensions

\* A KTX2 request that the Basis Universal encoder answered.
C25_BasisReturned ==
    /\ TexReturned
    /\ tx_in.format = "Ktx2" /\ tx_in.feature_ktx2 /\ tx_in.basis_ok
    /\ tx_out[1].data.container = "basis" /\ tx_out[1].mime_type = "image/ktx2"

\* ---------------------------------------------------------------------------
\* write_glb, write_glb_compressed (tiling/glb_writer.rs)
\* ---------------------------------------------------------------------------
\* The writer is modelled on lengths.  A mesh is given by the lengths of its
\* flat arrays (f32 counts) and by its index list; bin_data is its length and
\* the list of sections appended to it; the glTF root is the list of buffer
\* views and the fields of the accessors, image and material written to it.
\* Every length of the model is below 2^31, so the `as u32` of the header's
\* length changes nothing here.

U16Max == 65535
U16Modulus == 65536

\* The index lists of the inputs have at most GlbIndexLen entries.
GlbIndexLen == 3

\* `i as u16`
as_u16(i) == i % U16Modulus

\* The length of a Vec<u8> after `while len % 4 != 0 { push }`.
pad4_None(n) == n

pad4(n) == n + ((4 - (n % 4)) % 4)

\* IndexedMesh by its array lengths.
FlatMesh(vertices, normals, uvs, colors, indices, material_index) ==
    [positions |-> 3 * vertices,
     normals |-> IF normals THEN 3 * vertices ELSE 0,
     uvs |-> IF uvs THEN 2 * vertices ELSE 0,
     colors |-> IF colors THEN 4 * vertices ELSE 0,
     indices |-> indices,
     material_index |-> material_index]

flat_vertex_count(mesh) == mesh.positions \div 3

GlbState0 == [bin_len |-> 0, sections |-> <<>>, views |-> <<>>]

\* The padding loop, then the bytes and the buffer view of one section.
AppendView(st, what, byte_length, target) ==
    LET byte_offset == pad4(st.bin_len)
    IN  [bin_len |-> byte_offset + byte_length,
         sections |-> Append(st.sections, what),
         views |-> Append(st.views, [what |-> what, byte_offset |-> byte_offset,
                                     byte_length |-> byte_length, target |-> target])]

\* write_vertex_attribute_view: the encoded bytes when there are any, the raw
\* bytes otherwise.
write_vertex_attribute_view(st, what, raw_len, encoded_data) ==
    IF encoded_data /= None
    THEN AppendView(st, what, encoded_data[1], None)
    ELSE AppendView(st, what, raw_len, Some("ArrayBuffer"))

write_index_view(st, indices, use_u16, encoded_data) ==
    IF encoded_data /= None
    THEN AppendView(st, "indices", encoded_data[1], None)
    ELSE AppendView(st, "indices", Len(indices) * (IF use_u16 THEN 2 ELSE 4),
                    Some("ElementArrayBuffer"))

\* The index values the BIN chunk holds, None when they are meshopt-encoded.
stored_indices(indices, use_u16, encoded_data) ==
    IF encoded_data /= None THEN None
    ELSE IF use_u16 THEN Some([k \in 1..Len(indices) |-> as_u16(indices[k])])
    ELSE Some(indices)

\* build_material: the glTF material, with the atlas texture when there is one.
build_material(material_index, materials, texture_index) ==
    IF material_index = None THEN None
    ELSE IF material_index[1] + 1 > Len(materials.materials) THEN None
    ELSE Some([base_color_texture |-> texture_index])

write_empty_glb(env) ==
    LET json_len == pad4(env.json_len)
    IN  [header |-> [magic |-> "glTF", version |-> 2, length |-> 12 + 8 + json_len],
         json_len |-> json_len,
         bin |-> None]

use_u16_indices_Always(mesh) == TRUE

use_u16_indices(mesh) == flat_vertex_count(mesh) <= U16Max

\* env: what meshopt's encoders return for the attribute and the index
\* buffers (None: Err, or no compression asked), and the length of the JSON
\* text gltf_json serialises.
write_glb_impl(mesh, materials, atlas_texture, compress, env) ==
    IF mesh.positions = 0 THEN write_empty_glb(env)
    ELSE
    LET enc_attr == IF compress THEN env.enc_attr ELSE None
        enc_idx == IF compress THEN env.enc_idx ELSE None
        s1 == write_vertex_attribute_view(GlbState0, "positions", 4 * mesh.positions, enc_attr)
        s2 == IF mesh.normals /= 0
              THEN write_vertex_attribute_view(s1, "normals", 4 * mesh.normals, enc_attr)
              ELSE s1
        s3 == IF mesh.uvs /= 0
              THEN write_vertex_attribute_view(s2, "uvs", 4 * mesh.uvs, enc_attr)
              ELSE s2
        s4 == IF mesh.colors /= 0
              THEN write_vertex_attribute_view(s3, "colors", mesh.colors, enc_attr)
              ELSE s3
        use_u16 == use_u16_indices(mesh)
        s5 == write_index_view(s4, mesh.indices, use_u16, enc_idx)
        s6 == IF atlas_texture /= None
              THEN AppendView(s5, "texture", atlas_texture[1].len, None)
              ELSE s5
        texture_index == IF atlas_texture /= None THEN Some(0) ELSE None
        bin_len == pad4(s6.bin_len)
        json_len == pad4(env.json_len)
    IN  [header |-> [magic |-> "glTF", version |-> 2,
                     length |-> 12 + 8 + json_len + 8 + bin_len],
         json_len |-> json_len,
         bin |-> Some(bin_len),
         sections |-> s6.sections,
         views |-> s6.views,
         index_component_type |-> IF use_u16 THEN "U16" ELSE "U32",
         index_count |-> Len(mesh.indices),
         indices |-> stored_indices(mesh.indices, use_u16, enc_idx),
         image |-> IF atlas_texture /= None
                   THEN Some([buffer_view |-> Len(s6.views), mime_type |-> atlas_texture[1].mime_type])
                   ELSE None,
         material |-> build_material(mesh.material_index, materials, texture_index),
         buffer_byte_length |-> bin_len,
         extensions_required |->
             (IF compress THEN {"EXT_meshopt_compression"} ELSE {})
             \cup (IF atlas_texture /= None /\ atlas_texture[1].mime_type = "image/ktx2"
                   THEN {"KHR_texture_basisu"} ELSE {})]

write_glb(mesh, materials, atlas_texture, env) ==
    write_glb_impl(mesh, materials, atlas_texture, FALSE, env)

write_glb_compressed(mesh, materials, atlas_texture, env) ==
    write_glb_impl(mesh, materials, atlas_texture, TRUE, env)

GlbVertexCounts == {0, 3, U16Max, U16Max + 1, U16Max + 2}
GlbIndexValues == {0, 2, U16Max + 1}
GlbIndexLists == UNION {[1..n -> GlbIndexValues] : n \in 0..GlbIndexLen}
GlbMeshes ==
    {FlatMesh(v, n, u, c, idx, m) :
        v \in GlbVertexCounts, n \in BOOLEAN, u \in BOOLEAN, c \in BOOLEAN,
        idx \in GlbIndexLists, m \in {None, Some(0)}}
\* A library with one material, and for a mesh with a material index an
\* empty one as well.
GlbLibraries(mesh) ==
    {[materials |-> <<[base_color_texture |-> None]>>, textures |-> <<>>]}
    \cup (IF mesh.material_index /= None
          THEN {[materials |-> <<>>, textures |-> <<>>]} ELSE {})
GlbTextures == {None, Some([len |-> 5, mime_type |-> "image/png"])}
\* Without compression the encoders are not called.
GlbEnvs(compress) ==
    [enc_attr : IF compress THEN {None, Some(5)} ELSE {None},
     enc_idx : IF compress THEN {None, Some(5)} ELSE {None},
     json_len : {5, 8}]

GlbInit ==
    /\ \E mesh \in GlbMeshes, compress \in BOOLEAN :
         /\ \E materials \in GlbLibraries(mesh), tex \in GlbTextures, env \in GlbEnvs(compress) :
              glb_in = [mesh |-> mesh, materials |-> materials, atlas_texture |-> tex,
                        compress |-> compress, env |-> env]
    /\ glb_out = None
    /\ CoreIdle /\ TexIdle /\ TileGlbIdle /\ PolyIdle /\ PackIdle

WriteGlb ==
    /\ glb_out = None
    /\ ~glb_in.compress
    /\ glb_out' = Some(write_glb(glb_in.mesh, glb_in.materials, glb_in.atlas_texture, glb_in.env))
    /\ UNCHANGED <<glb_in, texVars, tileGlbVars, polyVars, packVars, coreVars>>

WriteGlbCompressed ==
    /\ glb_out = None
    /\ glb_in.compress
    /\ glb_out' = Some(write_glb_compressed(glb_in.mesh, glb_in.materials,
                                            glb_in.atlas_texture, glb_in.env))
    /\ UNCHANGED <<glb_in, texVars, tileGlbVars, polyVars, packVars, coreVars>>

GlbNext == WriteGlb \/ WriteGlbCompressed

SpecGlb == GlbInit /\ [][GlbNext]_vars

GlbWritten == glb_out /= None
GlbNonEmpty == GlbWritten /\ glb_in.mesh.positions /= 0

ValidIndices(mesh) ==
    \A k \in 1..Len(mesh.indices) : mesh.indices[k] < flat_vertex_count(mesh)

\* C26: the indices are stored as u16 exactly when the vertex count is at
\* most 65535 and as u32 otherwise, and when every index is below the vertex
\* count the u16 conversion stores the index values unchanged.
C26_IndexWidth ==
    GlbNonEmpty =>
        LET mesh == glb_in.mesh
            out == glb_out[1]
            idx_view == out.views[CHOOSE k \in 1..Len(out.views) : out.views[k].what = "indices"]
        IN  /\ out.index_component_type = "U16" <=> flat_vertex_count(mesh) <= 65535
            /\ out.index_component_type = "U32" <=> flat_vertex_count(mesh) > 65535
            /\ out.index_count = Len(mesh.indices)
            /\ out.indices /= None =>
                 /\ idx_view.byte_length =
                       Len(mesh.indices) * (IF flat_vertex_count(mesh) <= 65535 THEN 2 ELSE 4)
                 /\ ValidIndices(mesh) => out.indices[1] = mesh.indices

\* A mesh of 65535 vertices written with u16 indices, and a mesh of 65537
\* vertices whose index 65536 is written as u32.
C26_Witness ==
    /\ GlbNonEmpty /\ ~glb_in.compress
    /\ ValidIndices(glb_in.mesh) /\ Len(glb_in.mesh.indices) = 3
    /\ \/ /\ flat_vertex_count(glb_in.mesh) = 65535
          /\ glb_out[1].index_component_type = "U16"
          /\ glb_out[1].indices = Some(<<0, 2, 0>>)
       \/ /\ flat_vertex_count(glb_in.mesh) = 65537
          /\ glb_out[1].index_component_type = "U32"
          /\ glb_out[1].indices = Some(<<0, 65536, 2>>)

SectionOrder == <<"positions", "normals", "uvs", "colors", "indices", "texture">>

\* The sections a call has to write, in the fixed order.
ExpectedSections(in) ==
    LET present(what) ==
            CASE what = "positions" -> TRUE
              [] what = "normals" -> in.mesh.normals /= 0
              [] what = "uvs" -> in.mesh.uvs /= 0
              [] what = "colors" -> in.mesh.colors /= 0
              [] what = "indices" -> TRUE
              [] what = "texture" -> in.atlas_texture /= None
    IN  SelectSeq(SectionOrder, present)

\* C27: a GLB written for a non-empty mesh holds its sections in the order
\* positions, normals, UVs, colors, indices, texture; every buffer view
\* starts at a multiple of 4, after the end of the view before it; the JSON
\* and BIN chunk lengths are multiples of 4; the header's length is
\* 12 + 8 + JSON length + 8 + BIN length.  An empty mesh yields a JSON chunk
\* and no BIN chunk.
C27_GlbLayout ==
    GlbWritten =>
        LET out == glb_out[1]
        IN  /\ out.header.magic = "glTF" /\ out.header.version = 2
            /\ out.json_len % 4 = 0 /\ out.json_len >= glb_in.env.json_len
            /\ glb_in.mesh.positions = 0 =>
                 /\ out.bin = None
                 /\ out.header.length = 12 + 8 + out.json_len
            /\ glb_in.mesh.positions /= 0 =>
                 /\ out.sections = ExpectedSections(glb_in)
                 /\ Len(out.views) = Len(out.sections)
                 /\ \A k \in 1..Len(out.views) :
                      /\ out.views[k].what = out.sections[k]
                      /\ out.views[k].byte_offset % 4 = 0
                      /\ k > 1 => out.views[k].byte_offset >=
                                    out.views[k-1].byte_offset + out.views[k-1].byte_length
                      /\ out.views[k].byte_offset + out.views[k].byte_length <= out.bin[1]
                 /\ out.bin /= None
                 /\ out.bin[1] % 4 = 0
                 /\ out.buffer_byte_length = out.bin[1]
                 /\ out.header.length = 12 + 8 + out.json_len + 8 + out.bin[1]

\* A mesh with every attribute and an atlas texture, whose 6 bytes of u16
\* indices need padding before the texture, and whose texture and JSON need
\* padding at the end.
C27_Witness ==
    /\ GlbNonEmpty /\ ~glb_in.compress
    /\ glb_out[1].sections = SectionOrder
    /\ glb_out[1].views[5].byte_length = 6
    /\ glb_out[1].views[6].byte_offset = glb_out[1].views[5].byte_offset + 8
    /\ glb_out[1].bin = Some(glb_out[1].views[6].byte_offset + 8)
    /\ glb_in.env.json_len = 5 /\ glb_out[1].json_len = 8

\* An empty mesh: a JSON chunk and no BIN chunk.
C27_EmptyWritten ==
    GlbWritten /\ glb_in.mesh.positions = 0 /\ glb_out[1].bin = None

\* ---------------------------------------------------------------------------
\* write_tile_glb (tiling/tileset_writer.rs) and the whole of repack_atlas
\* (tiling/atlas_repacker.rs)
\* ---------------------------------------------------------------------------

\* A source TextureData: `encoded` is what image::load_from_memory makes of
\* its bytes (None: Err, else the decoded image's dimensions), `len` is
\* data.len(), width and height are the declared dimensions.
SourceTexture(encoded, width, height, len) ==
    [encoded |-> encoded, width |-> width, height |-> height, len |-> len]

\* u32 multiplication for factors up to 65536, wrapping at 2^32 as in a build
\* without overflow checks.
wrapping_mul_u32(a, b) == IF a = U16Modulus /\ b = U16Modulus THEN 0 ELSE a * b

\* RgbaImage::from_raw: None when the buffer is shorter than 4 * w * h.
from_raw(width, height, buf_len) ==
    IF width = 0 \/ height = 0 \/ width <= (buf_len \div 4) \div height
    THEN Some(<<width, height>>)
    ELSE None

decode_texture_RawAnyLength(tex) ==
    IF tex.encoded /= None THEN tex.encoded ELSE Some(<<tex.width, tex.height>>)

\* The dimensions of the decoded image, or None.
decode_texture(tex) ==
    LET pixel_count == wrapping_mul_u32(tex.width, tex.height)
    IN  IF tex.encoded /= None THEN tex.encoded
        ELSE IF tex.len = pixel_count * 4 THEN from_raw(tex.width, tex.height, tex.len)
        ELSE IF tex.len = pixel_count * 3
             THEN from_raw(tex.width, tex.height, (tex.len \div 3) * 4)
        ELSE None

\* Vec::get
vec_get(v, i) == IF i + 1 <= Len(v) THEN Some(v[i + 1]) ELSE None

\* The source image repack_atlas works from, None where it returns early.
repack_source(mesh, materials) ==
    IF ~has_uvs(mesh) THEN None
    ELSE IF mesh.material_index = None THEN None
    ELSE LET mat == vec_get(materials.materials, mesh.material_index[1])
         IN  IF mat = None THEN None
             ELSE IF mat[1].base_color_texture = None THEN None
             ELSE LET tex == vec_get(materials.textures, mat[1].base_color_texture[1])
                  IN  IF tex = None THEN None ELSE decode_texture(tex[1])

\* The results repack_atlas can return, one per order in which
\* detect_islands can meet the faces.  The atlas image is min(atlas_size,
\* max_size) on a side; env says what the encoders do with it.
repack_atlas(mesh, materials, texture_config, env) ==
    LET src == repack_source(mesh, materials)
    IN  IF src = None THEN {None}
        ELSE {IF islands = <<>> THEN None
              ELSE LET sized == sized_islands(islands, src[1][1], src[1][2], texture_config.max_size)
                       placements == guillotine_pack(sized)
                       atlas_size == compute_atlas_size(placements)
                       side == IF atlas_size > texture_config.max_size THEN texture_config.max_size
                               ELSE atlas_size
                       encoded == compress_texture(
                                      [width |-> side, height |-> side,
                                       format |-> texture_config.format, quality |-> texture_config.quality,
                                       feature_ktx2 |-> env.feature_ktx2,
                                       basis_ok |-> env.basis_ok,
                                       webp_ok |-> env.webp_ok, png_ok |-> TRUE])
                   IN  Some([mesh |-> remap_uvs_with_dedup(mesh, islands, placements, atlas_size),
                             atlas_texture |-> [len |-> env.atlas_len,
                                                mime_type |-> encoded.mime_type,
                                                width |-> encoded.width,
                                                height |-> encoded.height]]) :
              islands \in detect_islands(mesh, build_edge_adjacency(mesh))}

\* The array lengths of a mesh.
FlatOf(mesh) ==
    [positions |-> 3 * Len(mesh.positions),
     normals |-> 3 * Len(mesh.normals),
     uvs |-> 2 * Len(mesh.uvs),
     colors |-> 4 * Len(mesh.colors),
     indices |-> mesh.indices,
     material_index |-> mesh.material_index]

\* What a call of write_glb was given, and the GLB it returned.
GlbCall(mesh, materials, atlas_texture, env) ==
    [mesh |-> mesh, atlas_texture |-> atlas_texture,
     glb |-> write_glb(FlatOf(mesh), materials, atlas_texture, env)]

\* write_tile_glb with textures: the calls of write_glb it can end in.
write_tile_glb_calls(mesh, materials, texture_config, env) ==
    IF texture_config.enabled /\ has_uvs(mesh)
    THEN {IF r /= None
          THEN GlbCall(r[1].mesh, materials, Some(r[1].atlas_texture), env)
          ELSE GlbCall(mesh, materials, None, env) :
          r \in repack_atlas(mesh, materials, texture_config, env)}
    ELSE {GlbCall(mesh, materials, None, env)}

\* The declared sides of a source texture, and its data lengths.
TextureSides == {1, 2, U16Modulus}
TextureLens == {0, 4, 5, 6, 8, 12, 16}
SourceTextures ==
    {SourceTexture(Some(<<64, 64>>), 64, 64, 5)}
    \cup {SourceTexture(None, w, h, n) : w \in TextureSides, h \in TextureSides, n \in TextureLens}

TileGlbLibraries ==
    {[materials |-> ms, textures |-> ts] :
        ms \in {<<>>} \cup {<<[base_color_texture |-> t]>> : t \in {None, Some(0), Some(1)}},
        ts \in {<<>>} \cup {<<t>> : t \in SourceTextures}}

\* Meshes of zero to AtlasFaces faces with UVs and material 0, and one-face
\* meshes without UVs, without a material, or with material 1.
TileGlbMeshes ==
    {AtlasMeshOf(fs, orphan, TRUE, Some(0)) : fs \in AtlasFaceChoices, orphan \in BOOLEAN}
    \cup {AtlasMeshOf(<<1>>, FALSE, uv, mat) : uv \in BOOLEAN, mat \in {None, Some(0), Some(1)}}

TileGlbConfigs ==
    [format : {"WebP"}, quality : {85}, max_size : {2048}, enabled : BOOLEAN]

TileGlbEnvs ==
    [feature_ktx2 : {FALSE}, basis_ok : {FALSE}, webp_ok : BOOLEAN, atlas_len : {5},
     enc_attr : {None}, enc_idx : {None}, json_len : {5}]

TileGlbInit ==
    /\ tg_in \in [mesh : TileGlbMeshes, materials : TileGlbLibraries,
                  texture_config : TileGlbConfigs, env : TileGlbEnvs]
    /\ tg_out = None
    /\ CoreIdle /\ TexIdle /\ GlbIdle /\ PolyIdle /\ PackIdle

WriteTileGlb ==
    /\ tg_out = None
    /\ \E call \in write_tile_glb_calls(tg_in.mesh, tg_in.materials, tg_in.texture_config,
                                        tg_in.env) :
         tg_out' = Some(call)
    /\ UNCHANGED <<tg_in, texVars, glbVars, polyVars, packVars, coreVars>>

SpecTileGlb == TileGlbInit /\ [][WriteTileGlb]_vars

\* data.len() = W * H * channels, with the product taken in the integers
\* (a data length of the model is below 2^32).
RawLengthIs(tex, channels) ==
    IF tex.width = U16Modulus /\ tex.height = U16Modulus THEN FALSE
    ELSE tex.len = tex.width * tex.height * channels

Undecodable(tex) ==
    tex.encoded = None /\ ~RawLengthIs(tex, 4) /\ ~RawLengthIs(tex, 3)

\* The cases in which repack_atlas has nothing to work on.
NoUvs(in) == ~has_uvs(in.mesh)
NoMaterialIndex(in) == in.mesh.material_index = None
MaterialAbsent(in) ==
    in.mesh.material_index /= None
    /\ in.mesh.material_index[1] >= Len(in.materials.materials)
MaterialOf(in) == in.materials.materials[in.mesh.material_index[1] + 1]
NoBaseColorTexture(in) ==
    in.mesh.material_index /= None /\ ~MaterialAbsent(in)
    /\ MaterialOf(in).base_color_texture = None
HasTextureIndex(in) ==
    in.mesh.material_index /= None /\ ~MaterialAbsent(in)
    /\ MaterialOf(in).base_color_texture /= None
TextureAbsent(in) ==
    HasTextureIndex(in) /\ MaterialOf(in).base_color_texture[1] >= Len(in.materials.textures)
TextureUndecodable(in) ==
    HasTextureIndex(in) /\ ~TextureAbsent(in)
    /\ Undecodable(in.materials.textures[MaterialOf(in).base_color_texture[1] + 1])
NotApplicable(in) ==
    \/ NoUvs(in) \/ NoMaterialIndex(in) \/ MaterialAbsent(in)
    \/ NoBaseColorTexture(in) \/ TextureAbsent(in) \/ TextureUndecodable(in)

TileGlbWritten == tg_out /= None

\* C24: repack_atlas returns None when the mesh has no UVs or no material
\* index, when the material or the texture index is absent, when the
\* material has no base-color texture, and when the texture's bytes decode
\* neither as an encoded image nor as raw RGBA nor as raw RGB; write_tile_glb
\* then returns the GLB of the unmodified mesh without an atlas texture.
C24_RepackNotApplicable ==
    (TileGlbWritten /\ NotApplicable(tg_in)) =>
        /\ repack_atlas(tg_in.mesh, tg_in.materials, tg_in.texture_config, tg_in.env) = {None}
        /\ tg_out[1].mesh = tg_in.mesh
        /\ tg_out[1].atlas_texture = None
        /\ tg_out[1].glb = write_glb(FlatOf(tg_in.mesh), tg_in.materials, None, tg_in.env)
        /\ tg_out[1].glb.bin /= None =>
             /\ tg_out[1].glb.image = None
             /\ \A k \in 1..Len(tg_out[1].glb.sections) : tg_out[1].glb.sections[k] /= "texture"

\* Textures enabled, a mesh with UVs, a material and a texture whose raw
\* bytes fit neither W*H*4 nor W*H*3: the GLB is that of the mesh as it was.
C24_Witness ==
    /\ TileGlbWritten
    /\ tg_in.texture_config.enabled
    /\ TextureUndecodable(tg_in)
    /\ tg_in.materials.textures[1].len > 0
    /\ triangle_count(tg_in.mesh) > 0
    /\ tg_out[1].mesh = tg_in.mesh /\ tg_out[1].atlas_texture = None
    /\ tg_out[1].glb.bin /= None

\* The other cases, and the calls in which repack_atlas has a result.
TileGlbCaseReached(n) ==
    TileGlbWritten /\ tg_in.texture_config.enabled /\
    CASE n = 1 -> NoUvs(tg_in)
      [] n = 2 -> ~NoUvs(tg_in) /\ NoMaterialIndex(tg_in)
      [] n = 3 -> ~NoUvs(tg_in) /\ MaterialAbsent(tg_in)
      [] n = 4 -> ~NoUvs(tg_in) /\ NoBaseColorTexture(tg_in)
      [] n = 5 -> ~NoUvs(tg_in) /\ TextureAbsent(tg_in)
      [] n = 6 -> ~NoUvs(tg_in) /\ TextureUndecodable(tg_in)
                    /\ tg_in.materials.textures[1].width = U16Modulus
                    /\ tg_in.materials.textures[1].height = U16Modulus
                    /\ tg_in.materials.textures[1].len = 0
      [] n = 7 -> tg_out[1].atlas_texture /= None /\ tg_out[1].mesh /= tg_in.mesh
                    /\ tg_in.materials.textures[1].encoded = None

\* ---------------------------------------------------------------------------
\* clip_polygon_by_plane with its tolerances (tiling/triangle_clipper.rs)
\* ---------------------------------------------------------------------------
\* Here a coordinate counts units of 1e-15, so that the 1e-10 of the
\* inclusion test and the 1e-15 of intersect_edge are both numbers of the
\* model.

InsideTolerance == R(100000)
DenomEpsilon == R(1)

\* The polygons of the inputs have at most PolyLen vertices.
PolyLen == 3

\* a * b, cancelling across before multiplying.
RMulReduced(a, b) ==
    LET g1 == Gcd(Abs(a[1]), b[2])
        g2 == Gcd(Abs(b[1]), a[2])
    IN  IF a[1] = 0 \/ b[1] = 0 THEN RZero
        ELSE RatNorm((a[1] \div g1) * (b[1] \div g2), (a[2] \div g2) * (b[2] \div g1))

tol_is_inside_Exact(v, plane) ==
    IF plane.positive
    THEN RGe(v.pos[plane.axis], plane.value)
    ELSE RLe(v.pos[plane.axis], plane.value)

\* is_inside, with its tolerance.
tol_is_inside(v, plane) ==
    IF plane.positive
    THEN RGe(v.pos[plane.axis], RSub(plane.value, InsideTolerance))
    ELSE RLe(v.pos[plane.axis], RAdd(plane.value, InsideTolerance))

\* t of intersect_edge, with its guard on the denominator.
tol_edge_param(a, b, plane) ==
    LET da == RSub(a.pos[plane.axis], plane.value)
        db == RSub(b.pos[plane.axis], plane.value)
        denom == RSub(da, db)
    IN  IF RLt(RAbs(denom), DenomEpsilon) THEN RHalf ELSE RDiv(da, denom)

tol_intersect_edge(a, b, plane) ==
    LET t == tol_edge_param(a, b, plane)
        lerp(a_val, b_val) == RAdd(a_val, RMulReduced(t, RSub(b_val, a_val)))
    IN  [pos    |-> [i \in 1..3 |-> lerp(a.pos[i], b.pos[i])],
         normal |-> Renormalize([i \in 1..3 |-> lerp(a.normal[i], b.normal[i])]),
         uv     |-> [i \in 1..2 |-> lerp(a.uv[i], b.uv[i])],
         color  |-> [i \in 1..4 |-> lerp(a.color[i], b.color[i])]]

\* What one iteration of the loop pushes (i counts from 0 as in the code).
tol_clip_emit(polygon, plane, i) ==
    LET n == Len(polygon)
        current == polygon[i + 1]
        next == polygon[((i + 1) % n) + 1]
        cur_in == tol_is_inside(current, plane)
        nxt_in == tol_is_inside(next, plane)
    IN  CASE cur_in /\ nxt_in   -> <<next>>
          [] cur_in /\ ~nxt_in  -> <<tol_intersect_edge(current, next, plane)>>
          [] ~cur_in /\ nxt_in  -> <<tol_intersect_edge(current, next, plane), next>>
          [] ~cur_in /\ ~nxt_in -> <<>>

\* Vertices on the line y = z = 0, told apart by their colour.
PolyVertex(x, id) ==
    [pos |-> <<x, RZero, RZero>>, normal |-> <<RZero, RZero, RZero>>,
     uv |-> <<RZero, RZero>>, color |-> <<R(id), RZero, RZero, RZero>>]

\* Coordinates well outside, just outside the tolerance, on its edge, on the
\* plane and well inside, for the plane x >= 0; their mirror images for
\* the plane x <= 0.
PolyCoords(positive) ==
    LET s == IF positive THEN 1 ELSE -1
    IN  {R(-200000 * s), RatNorm(-200001 * s, 2), R(-100000 * s), R(0), R(200000 * s)}

PolyPlanes == {[axis |-> 1, value |-> RZero, positive |-> p] : p \in BOOLEAN}

PolygonsFor(plane) ==
    UNION {{[k \in 1..n |-> PolyVertex(xs[k], k)] : xs \in [1..n -> PolyCoords(plane.positive)]} :
           n \in 0..PolyLen}

PolyInit ==
    /\ \E plane \in PolyPlanes :
         \E polygon \in PolygonsFor(plane) :
            pg_in = [polygon |-> polygon, plane |-> plane]
    /\ pg_pc = "start"
    /\ pg_i = 0
    /\ pg_output = <<>>
    /\ CoreIdle /\ TexIdle /\ GlbIdle /\ TileGlbIdle /\ PackIdle

\* `if polygon.is_empty() { return Vec::new(); }`
PolyEmpty ==
    /\ pg_pc = "start"
    /\ pg_in.polygon = <<>>
    /\ pg_pc' = "done"
    /\ UNCHANGED <<pg_in, pg_i, pg_output>>
    /\ UNCHANGED <<texVars, glbVars, tileGlbVars, packVars, coreVars>>

PolyStart ==
    /\ pg_pc = "start"
    /\ pg_in.polygon /= <<>>
    /\ pg_pc' = "loop"
    /\ UNCHANGED <<pg_in, pg_i, pg_output>>
    /\ UNCHANGED <<texVars, glbVars, tileGlbVars, packVars, coreVars>>

\* One iteration of `for i in 0..n`.
PolyIterate ==
    /\ pg_pc = "loop"
    /\ pg_i < Len(pg_in.polygon)
    /\ pg_output' = pg_output \o tol_clip_emit(pg_in.polygon, pg_in.plane, pg_i)
    /\ pg_i' = pg_i + 1
    /\ UNCHANGED <<pg_in, pg_pc>>
    /\ UNCHANGED <<texVars, glbVars, tileGlbVars, packVars, coreVars>>

PolyReturn ==
    /\ pg_pc = "loop"
    /\ pg_i = Len(pg_in.polygon)
    /\ pg_pc' = "done"
    /\ UNCHANGED <<pg_in, pg_i, pg_output>>
    /\ UNCHANGED <<texVars, glbVars, tileGlbVars, packVars, coreVars>>

PolyNext == PolyEmpty \/ PolyStart \/ PolyIterate \/ PolyReturn

SpecPolygon == PolyInit /\ [][PolyNext]_vars

\* How far a vertex is beyond the plane, on its outer side (negative inside).
Beyond(v, plane) ==
    IF plane.positive
    THEN RSub(plane.value, v.pos[plane.axis])
    ELSE RSub(v.pos[plane.axis], plane.value)

WithinTolerance(v, plane) == RLe(Beyond(v, plane), InsideTolerance)

PolyCurrent(i) == pg_in.polygon[i + 1]
PolyNextVertex(i) == pg_in.polygon[((i + 1) % Len(pg_in.polygon)) + 1]

\* The number of vertices the Sutherland-Hodgman step emits for a pair.
StepCount(i) ==
    LET cur_in == WithinTolerance(PolyCurrent(i), pg_in.plane)
        nxt_in == WithinTolerance(PolyNextVertex(i), pg_in.plane)
    IN  IF cur_in /\ nxt_in THEN 1
        ELSE IF cur_in THEN 1
        ELSE IF nxt_in THEN 2
        ELSE 0

RECURSIVE StepOffset(_)
StepOffset(i) == IF i = 0 THEN 0 ELSE StepOffset(i - 1) + StepCount(i - 1)

\* The edge is shorter than 1e-15 along the plane's axis.
ShortEdge(a, b, plane) ==
    RLt(RAbs(RSub(a.pos[plane.axis], b.pos[plane.axis])), DenomEpsilon)

\* e is the edge/plane intersection of the edge from a to b: a point of the
\* plane, or for a short edge the edge's midpoint.
IsIntersection(e, a, b, plane) ==
    IF ShortEdge(a, b, plane)
    THEN \A k \in 1..3 : RAdd(e.pos[k], e.pos[k]) = RAdd(a.pos[k], b.pos[k])
    ELSE e.pos[plane.axis] = plane.value

\* The four cases, for every pair the loop has walked.
SutherlandHodgmanSteps ==
    pg_pc \in {"loop", "done"} =>
        /\ Len(pg_output) = StepOffset(pg_i)
        /\ \A i \in 0..(pg_i - 1) :
             LET cur == PolyCurrent(i)
                 nxt == PolyNextVertex(i)
                 cur_in == WithinTolerance(cur, pg_in.plane)
                 nxt_in == WithinTolerance(nxt, pg_in.plane)
                 at(k) == pg_output[StepOffset(i) + k]
             IN  /\ (cur_in /\ nxt_in) => at(1) = nxt
                 /\ (cur_in /\ ~nxt_in) => IsIntersection(at(1), cur, nxt, pg_in.plane)
                 /\ (~cur_in /\ nxt_in) =>
                      IsIntersection(at(1), cur, nxt, pg_in.plane) /\ at(2) = nxt

PolyReturned == pg_pc = "done"

EmptyWhenAllOutside ==
    (PolyReturned /\ \A k \in 1..Len(pg_in.polygon) :
                        ~WithinTolerance(pg_in.polygon[k], pg_in.plane))
        => pg_output = <<>>

\* C28 as stated: the four cases; no output vertex is outside the half-plane
\* beyond the 1e-10 tolerance; the output is empty when every input vertex
\* is outside.
C28_NoVertexBeyondTolerance ==
    /\ SutherlandHodgmanSteps
    /\ \A k \in 1..Len(pg_output) : WithinTolerance(pg_output[k], pg_in.plane)
    /\ EmptyWhenAllOutside

\* C28, amended: the four cases; every output vertex is within the 1e-10
\* tolerance of the half-plane, or is the midpoint of an edge shorter than
\* 1e-15 and then less than 1e-15 beyond the tolerance; the output is empty
\* when every input vertex is outside.
C28_ClipPolygonByPlane ==
    /\ SutherlandHodgmanSteps
    /\ \A k \in 1..Len(pg_output) :
          \/ WithinTolerance(pg_output[k], pg_in.plane)
          \/ /\ RLt(Beyond(pg_output[k], pg_in.plane), RAdd(InsideTolerance, DenomEpsilon))
             /\ \E i \in 0..(pg_i - 1) :
                   /\ ShortEdge(PolyCurrent(i), PolyNextVertex(i), pg_in.plane)
                   /\ IsIntersection(pg_output[k], PolyCurrent(i), PolyNextVertex(i), pg_in.plane)
    /\ EmptyWhenAllOutside

\* A polygon with a crossing edge shorter than 1e-15 has been clipped: the
\* edge's midpoint is in the output, beyond the tolerance by less than 1e-15.
C28_Witness ==
    /\ PolyReturned
    /\ Len(pg_in.polygon) = 3
    /\ \E k \in 1..Len(pg_output) :
          /\ ~WithinTolerance(pg_output[k], pg_in.plane)
          /\ RLt(Beyond(pg_output[k], pg_in.plane), RAdd(InsideTolerance, DenomEpsilon))
    /\ \E k \in 1..Len(pg_output) : pg_output[k].pos[1] = pg_in.plane.value

\* The shape of the unit test: a triangle with two vertices inside and one
\* outside is clipped to a quad inside the half-plane.
C28_QuadReached ==
    /\ PolyReturned
    /\ Len(pg_in.polygon) = 3
    /\ Len(pg_output) = 4
    /\ \A k \in 1..4 : WithinTolerance(pg_output[k], pg_in.plane)
    /\ \E k \in 1..3 : ~WithinTolerance(pg_in.polygon[k], pg_in.plane)

\* ---------------------------------------------------------------------------
\* guillotine_pack, one island at a time (tiling/atlas_repacker.rs)
\* ---------------------------------------------------------------------------

\* The island lists of the inputs have at most PackLen islands.
PackLen == 3

\* The bleed padding repack_atlas gives an island of px_w x px_h pixels.
bleed_padding(px_w, px_h) ==
    LET m == Max2(px_w, px_h)
    IN  IF m > 512 THEN 5 ELSE IF m > 128 THEN 3 ELSE 2

PixelSizes == {<<10, 10>>, <<60, 20>>, <<20, 60>>, <<200, 100>>, <<12288, 12288>>}

\* Island lists as repack_atlas sizes them; it calls guillotine_pack with at
\* least one island.
PackInputs ==
    UNION {{[i \in 1..n |-> <<i - 1, px[i][1], px[i][2], bleed_padding(px[i][1], px[i][2])>>] :
               px \in [1..n -> PixelSizes]} : n \in 1..PackLen}

PackInit ==
    /\ pk_sized \in PackInputs
    /\ pk_pc = "start"
    /\ pk_w = 0 /\ pk_h = 0 /\ pk_forced = FALSE
    /\ pk_k = 0 /\ pk_free = <<>> /\ pk_placements = <<>>
    /\ CoreIdle /\ TexIdle /\ GlbIdle /\ TileGlbIdle /\ PolyIdle

PackOrder == pack_order(pk_sized)

\* The state of a try_pack that starts in an atlas of w x h.
TryPackStart(w, h) ==
    /\ pk_w' = w
    /\ pk_h' = h
    /\ pk_k' = 0
    /\ pk_free' = <<FreeRect(0, 0, w, h)>>
    /\ pk_placements' = <<>>

\* The sort, the initial atlas and the first call of try_pack.
PackBegin ==
    /\ pk_pc = "start"
    /\ TryPackStart(initial_atlas_w(pk_sized), initial_atlas_h(pk_sized))
    /\ pk_pc' = "try"
    /\ UNCHANGED <<pk_sized, pk_forced>>
    /\ UNCHANGED <<texVars, glbVars, tileGlbVars, polyVars, coreVars>>

PackIsland == pk_sized[PackOrder[pk_k + 1]]
PackBest == find_bssf(pk_free, total_w(PackIsland), total_h(PackIsland))

\* One iteration of try_pack's loop that finds a free rectangle.
PackPlace ==
    /\ pk_pc = "try"
    /\ pk_k < Len(pk_sized)
    /\ PackBest /= 0
    /\ LET sz == PackIsland
           rect == pk_free[PackBest]
       IN  /\ pk_placements' = Append(pk_placements,
                                      [island_idx |-> sz[1], x |-> rect.x, y |-> rect.y,
                                       inner_w |-> sz[2], inner_h |-> sz[3],
                                       padding |-> sz[4]])
           /\ pk_free' = guillotine_split(RemoveAt(pk_free, PackBest), rect,
                                          total_w(sz), total_h(sz))
    /\ pk_k' = pk_k + 1
    /\ UNCHANGED <<pk_sized, pk_pc, pk_w, pk_h, pk_forced>>
    /\ UNCHANGED <<texVars, glbVars, tileGlbVars, polyVars, coreVars>>

\* try_pack returns Some(placements), and guillotine_pack returns them.
PackReturn ==
    /\ pk_pc = "try"
    /\ pk_k = Len(pk_sized)
    /\ pk_pc' = "done"
    /\ UNCHANGED <<pk_sized, pk_w, pk_h, pk_forced, pk_k, pk_free, pk_placements>>
    /\ UNCHANGED <<texVars, glbVars, tileGlbVars, polyVars, coreVars>>

PackFails == pk_pc = "try" /\ pk_k < Len(pk_sized) /\ PackBest = 0

\* try_pack returns None, the grown atlas is within the safety limit, and
\* the loop calls try_pack again.
PackGrow ==
    /\ PackFails /\ ~pk_forced
    /\ grown_w(pk_w, pk_h) <= SafetyLimit /\ grown_h(pk_w, pk_h) <= SafetyLimit
    /\ TryPackStart(grown_w(pk_w, pk_h), grown_h(pk_w, pk_h))
    /\ UNCHANGED <<pk_sized, pk_pc, pk_forced>>
    /\ UNCHANGED <<texVars, glbVars, tileGlbVars, polyVars, coreVars>>

\* try_pack returns None and the grown atlas is beyond the safety limit: the
\* forced call of try_pack.
PackForce ==
    /\ PackFails /\ ~pk_forced
    /\ grown_w(pk_w, pk_h) > SafetyLimit \/ grown_h(pk_w, pk_h) > SafetyLimit
    /\ TryPackStart(grown_w(pk_w, pk_h), grown_h(pk_w, pk_h))
    /\ pk_forced' = TRUE
    /\ UNCHANGED <<pk_sized, pk_pc>>
    /\ UNCHANGED <<texVars, glbVars, tileGlbVars, polyVars, coreVars>>

\* The forced try_pack returns None: unwrap_or_default, no placement.
PackGiveUp ==
    /\ PackFails /\ pk_forced
    /\ pk_placements' = <<>>
    /\ pk_pc' = "done"
    /\ UNCHANGED <<pk_sized, pk_w, pk_h, pk_forced, pk_k, pk_free>>
    /\ UNCHANGED <<texVars, glbVars, tileGlbVars, polyVars, coreVars>>

PackNext ==
    \/ PackBegin
    \/ PackPlace
    \/ PackReturn
    \/ PackGrow
    \/ PackForce
    \/ PackGiveUp

SpecPack == PackInit /\ [][PackNext]_vars

\* The padded rectangle of a placement.
PaddedRect(p) ==
    FreeRect(p.x, p.y, p.inner_w + 2 * p.padding, p.inner_h + 2 * p.padding)

RectsDisjoint(a, b) ==
    \/ a.x + a.w <= b.x \/ b.x + b.w <= a.x
    \/ a.y + a.h <= b.y \/ b.y + b.h <= a.y

RectInside(a, w, h) == a.x >= 0 /\ a.y >= 0 /\ a.x + a.w <= w /\ a.y + a.h <= h

IsPowerOfTwo(n) == \E e \in 0..30 : n = 2 ^ e

GuillotineReturned == pk_pc = "done"

\* The step-wise model returns what guillotine_pack returns.
PackAgrees == GuillotineReturned => pk_placements = guillotine_pack(pk_sized)

\* C29: the placements guillotine_pack returns have pairwise disjoint padded
\* rectangles, each inside the atlas it was packed into and inside the
\* square of side compute_atlas_size(placements), a power of two; throughout
\* packing the free rectangles are pairwise disjoint and disjoint from every
\* placed rectangle.
C29_PackDisjoint ==
    /\ pk_pc = "try" =>
         /\ \A i, j \in 1..Len(pk_free) : i /= j => RectsDisjoint(pk_free[i], pk_free[j])
         /\ \A i \in 1..Len(pk_free), j \in 1..Len(pk_placements) :
               RectsDisjoint(pk_free[i], PaddedRect(pk_placements[j]))
         /\ \A i \in 1..Len(pk_free) : RectInside(pk_free[i], pk_w, pk_h)
    /\ pk_pc \in {"try", "done"} =>
         /\ \A i, j \in 1..Len(pk_placements) :
               i /= j => RectsDisjoint(PaddedRect(pk_placements[i]), PaddedRect(pk_placements[j]))
         /\ \A i \in 1..Len(pk_placements) : RectInside(PaddedRect(pk_placements[i]), pk_w, pk_h)
    /\ GuillotineReturned =>
         LET size == compute_atlas_size(pk_placements)
         IN  /\ IsPowerOfTwo(size)
             /\ \A i \in 1..Len(pk_placements) :
                   RectInside(PaddedRect(pk_placements[i]), size, size)

\* Three islands placed after the atlas had to grow, with free rectangles
\* left over.
C29_Witness ==
    /\ GuillotineReturned /\ ~pk_forced
    /\ Len(pk_placements) = 3
    /\ pk_w > initial_atlas_w(pk_sized)
    /\ Len(pk_free) >= 2
    /\ compute_atlas_size(pk_placements) = 128

\* ---------------------------------------------------------------------------
\* Orphan vertices in the outputs of split_mesh_clipping
\* ---------------------------------------------------------------------------

\* The vertices of a mesh that no triangle references.
OrphanVertices(mesh) ==
    {v \in 0..(vertex_count(mesh) - 1) :
        \A k \in 1..Len(mesh.indices) : mesh.indices[k] /= v}

\* C30: in every output mesh of split_mesh_clipping each vertex is referenced
\* by a triangle of that mesh, so an octant that received no triangle is an
\* empty mesh (for which build_octree_recursive makes no child).
C30_NoOrphanVertex ==
    clip_out /= None =>
        \A o \in 1..8 :
            /\ OrphanVertices(clip_out[1][o]) = {}
            /\ triangle_count(clip_out[1][o]) = 0 => is_empty(clip_out[1][o])

\* An output mesh with vertices and no triangle: build_octree_recursive's
\* `!sub.is_empty()` holds for it.
C30_OrphanOnlyOctant ==
    /\ clip_out /= None
    /\ \E o \in 1..8 :
          /\ triangle_count(clip_out[1][o]) = 0
          /\ ~is_empty(clip_out[1][o])

====
